---- MODULE Spec2Model ----
(***************************************************************************)
(* Burst addressing and remote extraction of Sentinel-1 bursts.            *)
(*                                                                         *)
(* Thirteen specifications over one set of variables:                      *)
(*   Spec      get_burst_metadata: the loop over the swaths of a product   *)
(*             that builds one BurstMetadata per declared burst.           *)
(*   SpecFetch the remote partial read of one burst (seek + read through   *)
(*             the ZIP member) next to the whole-swath read and slice.     *)
(*   SpecId    calculate_relative_burstid, in both revisions.              *)
(*   SpecGeom  create_gcp_df and create_geometry.                          *)
(*   SpecDecode burst_bytes_to_numpy on byte strings of every length.      *)
(*   SpecStack edl_download_stack, called serially and then with threads.  *)
(*   SpecBurst edl_download_burst, statement by statement.                 *)
(*   SpecMeta  SLCMetadata and SwathMetadata construction for one product. *)
(*   SpecPool  the edl_download_burst calls of one threaded batch,         *)
(*             interleaved statement by statement.                         *)
(*   SpecPaths the path lists of a product and the paths of one swath.     *)
(*   SpecPoly  get_nearest_polynomial.                                     *)
(*   SpecValid get_lines_and_samples.                                      *)
(*   SpecCatalog generate_burst_stac_catalog.                              *)
(* Each specification pins the variables of the others.                    *)
(***************************************************************************)
EXTENDS Integers, Sequences, FiniteSets, TLC

VARIABLES
    annotations,   \* swath -> declared byteOffset list of its annotation (burstList)
    pc,            \* position of get_burst_metadata: "swath", "burst", "returned", "raised"
    swath_pos,     \* index into polarization_swath of the swath being addressed
    burst_index,   \* the inner loop's burst_index
    bursts,        \* the list `bursts` that get_burst_metadata returns
    error,         \* the exception that ended get_burst_metadata ("" when none)
    fetch,         \* state of the two reads of SpecFetch
    idb,           \* the bursts built under SpecId
    geo,           \* state of SpecGeom
    dl,            \* one edl_download_burst call (SpecBurst)
    stack,         \* one edl_download_stack call (SpecStack)
    dec,           \* one burst_bytes_to_numpy call (SpecDecode)
    meta,          \* one SLCMetadata construction (SpecMeta)
    pool,          \* the worker tasks of one threaded batch, statement by statement (SpecPool)
    paths,         \* the path lists of one product and the pairing of a swath (SpecPaths)
    poly,          \* one get_nearest_polynomial call (SpecPoly)
    valid,         \* one get_lines_and_samples call (SpecValid)
    cat            \* one generate_burst_stac_catalog call (SpecCatalog)

vars == <<annotations, pc, swath_pos, burst_index, bursts, error, fetch, idb, geo, dl, stack, dec, meta, pool, paths, poly, valid, cat>>

\* ------------------------------------------------------------------ bounds
MaxBursts == 3      \* bursts declared by one annotation: 1..MaxBursts
MaxOffset == 4      \* declared byteOffsets range over 0..MaxOffset
MaxFile == 8        \* size of the interior measurement file: 0..MaxFile bytes
MaxEntryStart == 2  \* archive position of the interior file's first byte: 0..MaxEntryStart
MaxAnxSec == 2      \* whole seconds of the sampled azimuthAnxTime values: 0..MaxAnxSec
MaxPixels == 3      \* geolocation grid points per line: 2..MaxPixels

Min(a, b) == IF a <= b THEN a ELSE b
Max(a, b) == IF a >= b THEN a ELSE b

\* The values SpecFetch's state has before a fetch starts (and keeps under
\* the other specifications).
NoHandle == [start |-> 0, size |-> 0, pos |-> 0]

NoFetch == [pc |-> "idle", item |-> [byte_offset |-> 0, byte_length |-> 0],
            remote |-> [entry_start |-> 0, size |-> 0],
            http_f |-> "closed", f |-> NoHandle,
            burst_bytes |-> << >>, swath_bytes |-> << >>, slice |-> << >>]

\* The values the download, batch, decoder and metadata state have under
\* the specifications that do not run them.
NoDl == [pc |-> "idle"]

NoStack == [pc |-> "idle"]

NoDec == [pc |-> "idle"]

NoMeta == [pc |-> "idle"]

NoPool == [pc |-> "idle"]

NoPaths == [pc |-> "idle"]

NoPoly == [pc |-> "idle"]

NoValid == [pc |-> "idle"]

NoCat == [pc |-> "idle"]

LaterIdle(except) ==
    /\ except = "pool" \/ pool = NoPool
    /\ except = "paths" \/ paths = NoPaths
    /\ except = "poly" \/ poly = NoPoly
    /\ except = "valid" \/ valid = NoValid
    /\ except = "cat" \/ cat = NoCat

OthersIdle ==
    dl = NoDl /\ stack = NoStack /\ dec = NoDec /\ meta = NoMeta /\ LaterIdle("")

\* ------------------------------------------------------- addressing (Spec)
\* product(slc.polarizations, range(slc.n_swaths)) of a single-polarization
\* product with two sub-swaths.
polarization_swath == << [polarization |-> "vv", swath_index |-> 0],
                         [polarization |-> "vv", swath_index |-> 1] >>

SwathIds == 1..Len(polarization_swath)

IsIncreasing(s) == \A i \in 1..(Len(s) - 1) : s[i] < s[i + 1]

\* The burst lists an annotation can declare: 1..MaxBursts bursts whose
\* byteOffsets increase (records are laid out one after another); the strides
\* between them are free, so layouts with unequal strides are included.
OffsetLists ==
    UNION { { s \in [1..n -> 0..MaxOffset] : IsIncreasing(s) } : n \in 1..MaxBursts }

\* SwathMetadata.n_bursts: the count declared on burstList.
n_bursts(s) == Len(annotations[s])

\* BurstMetadata.__init__, the byte addressing part.  offsets is the list of
\* byteOffset texts of swath.annotation.findall('burst'); i is burst_index
\* (0-based).  burst_annotations[1] is read whatever i is, so a list with a
\* single burst raises IndexError.
BurstMetadataPerBurstStride(s, offsets, i) ==
    IF Len(offsets) < 2
    THEN [ok |-> FALSE, error |-> "IndexError"]
    ELSE [ok |-> TRUE,
          swath |-> s,
          burst_index |-> i,
          byte_offset |-> offsets[i + 1],
          byte_length |-> IF i + 2 <= Len(offsets)
                          THEN offsets[i + 2] - offsets[i + 1]
                          ELSE offsets[i + 1] - offsets[i]]

BurstMetadata(s, offsets, i) ==
    IF Len(offsets) < 2
    THEN [ok |-> FALSE, error |-> "IndexError"]
    ELSE [ok |-> TRUE,
          swath |-> s,
          burst_index |-> i,
          byte_offset |-> offsets[i + 1],
          byte_length |-> offsets[2] - offsets[1]]

\* for polarization, swath_index in polarization_swath:
\*     swath = SwathMetadata(slc, polarization, swath_index)
\* When the swaths are exhausted the function returns `bursts`.
SwathMetadataInit ==
    /\ pc = "swath"
    /\ IF swath_pos <= Len(polarization_swath)
       THEN /\ pc' = "burst"
            /\ burst_index' = 0
       ELSE /\ pc' = "returned"
            /\ UNCHANGED burst_index
    /\ UNCHANGED <<annotations, swath_pos, bursts, error, fetch, idb, geo, dl, stack, dec, meta, pool, paths, poly, valid, cat>>

\* for burst_index in range(swath.n_bursts):
\*     burst = BurstMetadata(swath, burst_index); bursts.append(burst)
\* An exception of BurstMetadata leaves get_burst_metadata: nothing is returned.
BurstMetadataInit ==
    /\ pc = "burst"
    /\ burst_index < n_bursts(swath_pos)
    /\ LET b == BurstMetadata(swath_pos, annotations[swath_pos], burst_index)
       IN  IF b.ok
           THEN /\ bursts' = Append(bursts, b)
                /\ burst_index' = burst_index + 1
                /\ UNCHANGED <<pc, error>>
           ELSE /\ pc' = "raised"
                /\ error' = b.error
                /\ UNCHANGED <<bursts, burst_index>>
    /\ UNCHANGED <<annotations, swath_pos, fetch, idb, geo, dl, stack, dec, meta, pool, paths, poly, valid, cat>>

\* range(swath.n_bursts) is exhausted: on to the next swath.
SwathDone ==
    /\ pc = "burst"
    /\ burst_index = n_bursts(swath_pos)
    /\ pc' = "swath"
    /\ swath_pos' = swath_pos + 1
    /\ UNCHANGED <<annotations, burst_index, bursts, error, fetch, idb, geo, dl, stack, dec, meta, pool, paths, poly, valid, cat>>

\* ------------------------------------------------- relative burst ID (SpecId)
\* Times are exact: an ANX time is [s |-> whole seconds, us |-> microseconds],
\* the resolution of the annotation's azimuthAnxTime and of the constants.
\* Machine integers are 32 bits wide, so the products of the formula are
\* reduced modulo the denominator as they are formed (MulDiv).
PREAMBLE_LENGTH_US == 2299849
BEAM_CYCLE_TIME_US == 2758273
ORBITS_PER_CYCLE == 175
MICRO == 1000000

\* NOMINAL_ORBITAL_DURATION = 12 * 24 * 3600 / 175 seconds: its numerator.
CYCLE_SECONDS == 12 * 24 * 3600

\* (time_distance - PREAMBLE_LENGTH) / BEAM_CYCLE_TIME has, in microseconds and
\* with the 175 of the orbital duration cleared, the denominator 175 * BEAM_CYCLE_TIME.
Denominator == ORBITS_PER_CYCLE * BEAM_CYCLE_TIME_US

\* x * y = q * Denominator + r with 0 <= r < Denominator, for 0 <= x and
\* 0 <= y < Denominator, formed bit by bit of x so that nothing exceeds 32 bits.
RECURSIVE MulDiv(_, _)
MulDiv(x, y) ==
    IF x = 0
    THEN [q |-> 0, r |-> 0]
    ELSE LET h == MulDiv(x \div 2, y)
             t == 2 * h.r + (x % 2) * y
         IN  [q |-> 2 * h.q + (t \div Denominator), r |-> t % Denominator]

\* np.floor((time_distance - PREAMBLE_LENGTH) / BEAM_CYCLE_TIME) with
\* orbital = (orbit - 1) * NOMINAL_ORBITAL_DURATION and
\* time_distance = anx + orbital, sign * anx in place of anx.
FloorCyclesSigned(orbit, anx, sign) ==
    LET cycle   == MulDiv(CYCLE_SECONDS, MICRO)          \* 12*24*3600 s in us
        orbital == MulDiv(orbit - 1, cycle.r)
        seconds == MulDiv(anx.s, ORBITS_PER_CYCLE * MICRO)
        rest    == orbital.r + sign * seconds.r
                   + ORBITS_PER_CYCLE * (sign * anx.us - PREAMBLE_LENGTH_US)
    IN  (orbit - 1) * cycle.q + orbital.q + sign * seconds.q + (rest \div Denominator)

FloorCycles(orbit, anx) == FloorCyclesSigned(orbit, anx, 1)

\* slc_start_anx + burst_anx_delta
AddTime(x, y) == [s |-> x.s + y.s + ((x.us + y.us) \div MICRO), us |-> (x.us + y.us) % MICRO]

\* int() of the quotient in place of np.floor: truncation toward zero.  A
\* negative quotient is never whole here (anx >= 0 and PREAMBLE_LENGTH <
\* BEAM_CYCLE_TIME), so it is the floor plus one.
TruncCycles(orbit, anx) ==
    LET f == FloorCycles(orbit, anx)
    IN  IF f < 0 THEN f + 1 ELSE f

\* src/bursts.py: BurstMetadata.calculate_relative_burstid
bursts_py_truncating(self) == 1 + TruncCycles(self.relative_orbit, self.burst_anx_delta)

bursts_py_calculate_relative_burstid(self) ==
    1 + FloorCycles(self.relative_orbit, self.burst_anx_delta)

\* src/bursts/bursts.py: BurstMetadata.calculate_relative_burstid, which ends
\* with  relative_burstid += 1  under its TODO "relative_burstid is off by one".
calculate_relative_burstid_from_burst_anx(self) ==
    1 + FloorCycles(self.relative_orbit, self.burst_anx) + 1

calculate_relative_burstid_minus_anx(self) ==
    1 + FloorCyclesSigned(self.relative_orbit, self.burst_anx_delta, 0 - 1) + 1

calculate_relative_burstid_no_increment(self) ==
    1 + FloorCycles(self.relative_orbit, self.burst_anx_delta)

calculate_relative_burstid(self) ==
    1 + FloorCycles(self.relative_orbit, self.burst_anx_delta) + 1

\* ------------------------------------------------------ footprint (SpecGeom)
\* A geolocation grid: rows at line = 0, lines, 2 * lines, ..., n_bursts * lines,
\* each with n_pixels points; the geodetic position of a point is affine in
\* (row, column), with the four orientations of a pass in both coordinates, so
\* all points are distinct.
GridPoint(g, row, col) ==
    [line |-> row * g.lines,
     pixel |-> (col - 1) * g.pixel_step,
     latitude |-> (col - 1) * g.dyp + row * g.dyl,
     longitude |-> (col - 1) * g.dxp + row * g.dxl,
     height |-> 0]

\* The geolocationGridPoint elements in the order the annotation lists them:
\* line by line, line by line backwards, pixel column by pixel column, or
\* column by column backwards.
GridPoints(g) ==
    LET n == (g.n_bursts + 1) * g.n_pixels
        byLine == [k \in 1..n |-> GridPoint(g, (k - 1) \div g.n_pixels,
                                               ((k - 1) % g.n_pixels) + 1)]
        byPixel == [k \in 1..n |-> GridPoint(g, (k - 1) % (g.n_bursts + 1),
                                                ((k - 1) \div (g.n_bursts + 1)) + 1)]
    IN  CASE g.order = "by_line" -> byLine
          [] g.order = "by_line_reversed" -> [k \in 1..n |-> byLine[n + 1 - k]]
          [] g.order = "by_pixel" -> byPixel
          [] OTHER -> [k \in 1..n |-> byPixel[n + 1 - k]]

Grids ==
    [n_bursts : 1..MaxBursts, n_pixels : 2..MaxPixels, lines : {2, 5}, pixel_step : {3},
     dxp : {0 - 3, 3}, dyp : {0 - 1, 1}, dxl : {0 - 1, 1}, dyl : {0 - 4, 4},
     order : {"by_line", "by_line_reversed", "by_pixel", "by_pixel_reversed"}]

\* sort_values(['line', 'pixel']): row a comes before row b.
LinePixelBefore(a, b) == a.line < b.line \/ (a.line = b.line /\ a.pixel < b.pixel)

Remove(s, i) == [k \in 1..(Len(s) - 1) |-> IF k < i THEN s[k] ELSE s[k + 1]]

RECURSIVE sort_values(_)
sort_values(df) ==
    IF Len(df) = 0
    THEN << >>
    ELSE LET i == CHOOSE i \in 1..Len(df) :
                      \A k \in 1..Len(df) : k = i \/ ~LinePixelBefore(df[k], df[i])
         IN  <<df[i]>> \o sort_values(Remove(df, i))

\* SwathMetadata.create_gcp_df: the grid points as a table sorted by (line, pixel).
create_gcp_df_unsorted(points) == points

create_gcp_df(points) == sort_values(points)

Reverse(s) == [k \in 1..Len(s) |-> s[Len(s) + 1 - k]]

RECURSIVE SeqMin(_)
SeqMin(s) == IF Len(s) = 1 THEN s[1] ELSE Min(s[1], SeqMin(Tail(s)))

RECURSIVE SeqMax(_)
SeqMax(s) == IF Len(s) = 1 THEN s[1] ELSE Max(s[1], SeqMax(Tail(s)))

\* geometry.Polygon(zip(x, y)): the exterior ring keeps the order of the
\* coordinates and is closed onto its first coordinate when it is not closed.
Polygon(x, y) ==
    LET coords == [k \in 1..Min(Len(x), Len(y)) |-> <<x[k], y[k]>>]
    IN  IF coords[1] = coords[Len(coords)] /\ Len(coords) > 1
        THEN coords
        ELSE Append(coords, coords[1])

\* footprint.bounds: (minx, miny, maxx, maxy) of the ring.
Bounds(ring) ==
    LET xs == [k \in 1..Len(ring) |-> ring[k][1]]
        ys == [k \in 1..Len(ring) |-> ring[k][2]]
    IN  <<SeqMin(xs), SeqMin(ys), SeqMax(xs), SeqMax(ys)>>

RowsAt(gcp_df, line) == SelectSeq(gcp_df, LAMBDA p : p.line = line)

Column(rows, name) == [k \in 1..Len(rows) |-> rows[k][name]]

\* BurstMetadata.create_geometry (the centroid, a third result, is not modelled).
create_geometry_no_reverse(gcp_df, index, lines) ==
    LET first_line == RowsAt(gcp_df, index * lines)
        second_line == RowsAt(gcp_df, (index + 1) * lines)
        x == Column(first_line, "longitude") \o Column(second_line, "longitude")
        y == Column(first_line, "latitude") \o Column(second_line, "latitude")
        footprint == Polygon(x, y)
    IN  [burst_index |-> index, footprint |-> footprint, bounds |-> Bounds(footprint)]

create_geometry(gcp_df, index, lines) ==
    LET first_line == RowsAt(gcp_df, index * lines)
        second_line == RowsAt(gcp_df, (index + 1) * lines)
        x1 == Column(first_line, "longitude")
        y1 == Column(first_line, "latitude")
        x2 == Reverse(Column(second_line, "longitude"))
        y2 == Reverse(Column(second_line, "latitude"))
        x == x1 \o x2
        y == y1 \o y2
        footprint == Polygon(x, y)
    IN  [burst_index |-> index, footprint |-> footprint, bounds |-> Bounds(footprint)]

NoGeo == [pc |-> "idle", grid |-> << >>, points |-> << >>, gcp_df |-> << >>,
          burst_index |-> 0, geometries |-> << >>]

InitGeom ==
    /\ annotations = [s \in SwathIds |-> << >>]
    /\ pc = "geom"
    /\ swath_pos = 1
    /\ burst_index = 0
    /\ bursts = << >>
    /\ error = ""
    /\ fetch = NoFetch
    /\ idb = << >>
    /\ OthersIdle
    /\ \E g \in Grids :
          geo = [NoGeo EXCEPT !.pc = "swath", !.grid = g, !.points = GridPoints(g)]

GeomUnchanged == UNCHANGED <<annotations, pc, swath_pos, burst_index, bursts, error, fetch, idb, dl, stack, dec, meta, pool, paths, poly, valid, cat>>

\* SwathMetadata.__init__: self.gcp_df = self.create_gcp_df()
CreateGcpDf ==
    /\ geo.pc = "swath"
    /\ geo' = [geo EXCEPT !.gcp_df = create_gcp_df(geo.points), !.pc = "burst"]
    /\ GeomUnchanged

\* for burst_index in range(swath.n_bursts): BurstMetadata.__init__:
\* self.footprint, self.bounds, self.center = self.create_geometry(swath.gcp_df)
CreateGeometry ==
    /\ geo.pc = "burst"
    /\ geo.burst_index < geo.grid.n_bursts
    /\ geo' = [geo EXCEPT
          !.geometries = Append(@, create_geometry(geo.gcp_df, geo.burst_index, geo.grid.lines)),
          !.burst_index = @ + 1]
    /\ GeomUnchanged

NextGeom == CreateGcpDf \/ CreateGeometry

SpecGeom == InitGeom /\ [][NextGeom]_vars

\* The grid points of the annotation at one line, and the one among them with
\* exactly `rank - 1` points of smaller pixel.
PointsAtLine(line) == { k \in 1..Len(geo.points) : geo.points[k].line = line }

PointOfRank(line, rank) ==
    LET k == CHOOSE k \in PointsAtLine(line) :
                 Cardinality({ j \in PointsAtLine(line) :
                                  geo.points[j].pixel < geo.points[k].pixel }) = rank - 1
    IN  <<geo.points[k].longitude, geo.points[k].latitude>>

\* C9: the footprint ring of burst i is made of the (longitude, latitude) of
\* the grid points at line = i * lines_per_burst in ascending pixel order,
\* then of those at line = (i + 1) * lines_per_burst in descending pixel order,
\* and is closed back onto its first point; the bounding box is the min/max of
\* those coordinates.
C9_FootprintRing ==
    \A k \in 1..Len(geo.geometries) :
        LET g == geo.geometries[k]
            l1 == g.burst_index * geo.grid.lines
            l2 == (g.burst_index + 1) * geo.grid.lines
            n1 == Cardinality(PointsAtLine(l1))
            n2 == Cardinality(PointsAtLine(l2))
            ring == g.footprint
            corners == { PointOfRank(l1, r) : r \in 1..n1 } \cup { PointOfRank(l2, r) : r \in 1..n2 }
        IN  /\ Len(ring) = n1 + n2 + 1
            /\ \A r \in 1..n1 : ring[r] = PointOfRank(l1, r)
            /\ \A r \in 1..n2 : ring[n1 + r] = PointOfRank(l2, n2 + 1 - r)
            /\ ring[n1 + n2 + 1] = ring[1]
            /\ \A c \in corners : /\ g.bounds[1] <= c[1] /\ c[1] <= g.bounds[3]
                                  /\ g.bounds[2] <= c[2] /\ c[2] <= g.bounds[4]
            /\ \E c \in corners : c[1] = g.bounds[1]
            /\ \E c \in corners : c[2] = g.bounds[2]
            /\ \E c \in corners : c[1] = g.bounds[3]
            /\ \E c \in corners : c[2] = g.bounds[4]

\* The footprint of the one burst of a 2 x 2 grid whose points the annotation
\* lists last line first: p(row0, px0), p(row0, px1), p(row1, px1), p(row1, px0)
\* and back to p(row0, px0).
C9_Witness ==
    /\ geo.pc = "burst"
    /\ geo.grid.n_bursts = 1
    /\ geo.grid.n_pixels = 2
    /\ geo.grid.order = "by_line_reversed"
    /\ Len(geo.geometries) = 1
    /\ geo.geometries[1].footprint =
          << <<geo.points[4].longitude, geo.points[4].latitude>>,
             <<geo.points[3].longitude, geo.points[3].latitude>>,
             <<geo.points[1].longitude, geo.points[1].latitude>>,
             <<geo.points[2].longitude, geo.points[2].latitude>>,
             <<geo.points[4].longitude, geo.points[4].latitude>> >>

\* ------------------------------------------------------ fetch (SpecFetch)
\* The remote ZIP archive as the range-readable stream sees it: the interior
\* measurement file occupies archive positions entry_start .. entry_start +
\* size - 1.  Every byte carries its origin, so that two reads return equal
\* bytes only when they read the same positions: the byte at interior
\* position p is p, a byte of the archive outside the interior file is
\* negative.
ArchiveByte(remote, q) ==
    IF remote.entry_start <= q /\ q < remote.entry_start + remote.size
    THEN q - remote.entry_start
    ELSE 0 - (q + 1)

\* zip_fs.open(interior_path): the central directory gives the member's start
\* and size; the handle starts at position 0 of the member.
ZipOpen(remote) == [start |-> remote.entry_start, size |-> remote.size, pos |-> 0]

\* f.seek(byte_offset) on the member handle: the position counts from the
\* member's first byte and is clamped to the member's size.
SeekStay(f, offset) == f

Seek(f, offset) == [f EXCEPT !.pos = Min(Max(offset, 0), f.size)]

\* The bytes f.read(n) returns: at most n bytes from the handle's position,
\* ending at the member's end; a negative n reads to the end.
ReadCount(f, n) == IF n < 0 THEN f.size - f.pos ELSE Min(n, f.size - f.pos)

ReadFromArchiveStart(remote, f, n) ==
    [k \in 1..ReadCount(f, n) |-> ArchiveByte(remote, f.pos + k - 1)]

Read(remote, f, n) ==
    [k \in 1..ReadCount(f, n) |-> ArchiveByte(remote, f.start + f.pos + k - 1)]

\* f.read(): everything from the handle's position to the member's end.
ReadAll(remote, f) == Read(remote, f, f.size - f.pos)

\* swath_bytes[a:b] for 0 <= a, b: Python clamps both ends to the length.
SliceFromZero(s, a, b) == SubSeq(s, 1, Min(b - a, Len(s)))

Slice(s, a, b) == SubSeq(s, Min(a, Len(s)) + 1, Min(b, Len(s)))

\* The descriptors a fetch can be given: byte_offset and byte_length of a
\* BurstMetadata built from a declared burst list (to_stac_item copies them
\* into the asset, edl_download_burst reads them back).

Init ==
    /\ annotations \in [SwathIds -> OffsetLists]
    /\ pc = "swath"
    /\ swath_pos = 1
    /\ burst_index = 0
    /\ bursts = << >>
    /\ error = ""
    /\ fetch = NoFetch
    /\ idb = << >>
    /\ geo = NoGeo
    /\ OthersIdle

Next == SwathMetadataInit \/ BurstMetadataInit \/ SwathDone

Spec == Init /\ [][Next]_vars

Items ==
    { [byte_offset |-> BurstMetadata(1, offsets, i).byte_offset,
       byte_length |-> BurstMetadata(1, offsets, i).byte_length] :
        <<offsets, i>> \in { p \in OffsetLists \X (0..(MaxBursts - 1)) :
                                Len(p[1]) >= 2 /\ p[2] < Len(p[1]) } }

Remotes == [entry_start : 0..MaxEntryStart, size : 0..MaxFile]

InitFetch ==
    /\ annotations = [s \in SwathIds |-> << >>]
    /\ pc = "fetch"
    /\ swath_pos = 1
    /\ burst_index = 0
    /\ bursts = << >>
    /\ error = ""
    /\ \E it \in Items, r \in Remotes :
          fetch = [NoFetch EXCEPT !.pc = "burst_start", !.item = it, !.remote = r]
    /\ idb = << >>
    /\ geo = NoGeo
    /\ OthersIdle

FetchUnchanged == UNCHANGED <<annotations, pc, swath_pos, burst_index, bursts, error, idb, geo, dl, stack, dec, meta, pool, paths, poly, valid, cat>>

\* with http_fs.open(url_path) as http_f: (http_burst and http_swath alike)
HttpOpen ==
    /\ fetch.pc \in {"burst_start", "swath_start"}
    /\ fetch' = [fetch EXCEPT !.http_f = "open",
                              !.pc = IF fetch.pc = "burst_start" THEN "burst_opened"
                                                                 ELSE "swath_opened"]
    /\ FetchUnchanged

\* zip_fs = fsspec.filesystem('zip', fo=http_f); with zip_fs.open(interior_path) as f:
ZipFsOpen ==
    /\ fetch.pc \in {"burst_opened", "swath_opened"}
    /\ fetch' = [fetch EXCEPT !.f = ZipOpen(fetch.remote),
                              !.pc = IF fetch.pc = "burst_opened" THEN "burst_member"
                                                                  ELSE "swath_member"]
    /\ FetchUnchanged

\* http_burst: f.seek(byte_offset)
BurstSeek ==
    /\ fetch.pc = "burst_member"
    /\ fetch' = [fetch EXCEPT !.f = Seek(fetch.f, fetch.item.byte_offset),
                              !.pc = "burst_seeked"]
    /\ FetchUnchanged

\* http_burst: burst_bytes = f.read(byte_length)
BurstRead ==
    /\ fetch.pc = "burst_seeked"
    /\ LET data == Read(fetch.remote, fetch.f, fetch.item.byte_length)
       IN  fetch' = [fetch EXCEPT !.burst_bytes = data,
                                  !.f.pos = fetch.f.pos + Len(data),
                                  !.pc = "burst_read"]
    /\ FetchUnchanged

\* http_burst: both with-blocks are left and burst_bytes is returned; the
\* benchmark loop then calls http_swath on the same dataset.
BurstReturn ==
    /\ fetch.pc = "burst_read"
    /\ fetch' = [fetch EXCEPT !.http_f = "closed", !.f = NoHandle, !.pc = "swath_start"]
    /\ FetchUnchanged

\* http_swath: swath_bytes = f.read()
SwathRead ==
    /\ fetch.pc = "swath_member"
    /\ LET data == ReadAll(fetch.remote, fetch.f)
       IN  fetch' = [fetch EXCEPT !.swath_bytes = data,
                                  !.f.pos = fetch.f.pos + Len(data),
                                  !.pc = "swath_read"]
    /\ FetchUnchanged

\* http_swath: the with-blocks are left and
\* burst_bytes = swath_bytes[byte_offset:byte_offset + byte_length] is taken;
\* the function itself returns swath_bytes.
SwathSlice ==
    /\ fetch.pc = "swath_read"
    /\ fetch' = [fetch EXCEPT
          !.http_f = "closed", !.f = NoHandle,
          !.slice = Slice(fetch.swath_bytes, fetch.item.byte_offset,
                          fetch.item.byte_offset + fetch.item.byte_length),
          !.pc = "done"]
    /\ FetchUnchanged

NextFetch ==
    HttpOpen \/ ZipFsOpen \/ BurstSeek \/ BurstRead \/ BurstReturn \/ SwathRead \/ SwathSlice

SpecFetch == InitFetch /\ [][NextFetch]_vars

BurstFetched == fetch.pc \in {"burst_read", "swath_start", "swath_opened",
                              "swath_member", "swath_read", "done"}

\* C1: a fetch of one burst reads byte_length bytes starting at byte_offset
\* counted from the first byte of the interior measurement file, not of the
\* archive: the bytes returned are those at interior positions byte_offset,
\* byte_offset + 1, ..., as far as the interior file reaches, and exactly
\* byte_length of them when the file holds the whole range.
C1_ReadsInteriorRange ==
    BurstFetched =>
        LET off == fetch.item.byte_offset
            len == fetch.item.byte_length
            data == fetch.burst_bytes
        IN  /\ \A k \in 1..Len(data) : data[k] = off + k - 1
            /\ Len(data) = Min(len, Max(fetch.remote.size - off, 0))
            /\ (off + len <= fetch.remote.size => Len(data) = len)

\* A burst that does not start the file was read in full from a member that
\* does not start the archive.
C1_Witness ==
    /\ fetch.pc = "burst_read"
    /\ fetch.remote.entry_start > 0
    /\ fetch.item.byte_offset > 0
    /\ Len(fetch.burst_bytes) = fetch.item.byte_length
    /\ Len(fetch.burst_bytes) >= 2

\* C10: the seek-and-read fetch of a burst returns exactly the bytes that
\* reading the whole interior file and slicing
\* [byte_offset, byte_offset + byte_length) gives.
C10_RangeReadEqualsSlice ==
    fetch.pc = "done" => fetch.burst_bytes = fetch.slice

\* Both reads are done for a burst inside a file that holds it and more.
C10_Witness ==
    /\ fetch.pc = "done"
    /\ fetch.item.byte_offset > 0
    /\ Len(fetch.slice) = fetch.item.byte_length
    /\ Len(fetch.swath_bytes) > fetch.item.byte_offset + fetch.item.byte_length

\* The fields of a product and burst that BurstMetadata.__init__ has at hand
\* besides relative_orbit and azimuthAnxTime.  The first two name the same
\* sub-swath and differ in everything else; the third names another sub-swath
\* of the first one's product, the fourth the first one's sub-swath in the
\* other polarization of that product.
Profiles ==
    { [sensing_start |-> "2021-01-07", slc_start_anx |-> [s |-> 100, us |-> 500000],
       burst_index |-> 0, platform |-> "S1A", polarization |-> "vv", swath_index |-> 0],
      [sensing_start |-> "2021-02-12", slc_start_anx |-> [s |-> 2, us |-> 700001],
       burst_index |-> 3, platform |-> "S1B", polarization |-> "vh", swath_index |-> 0],
      [sensing_start |-> "2021-01-07", slc_start_anx |-> [s |-> 100, us |-> 500000],
       burst_index |-> 0, platform |-> "S1A", polarization |-> "vv", swath_index |-> 1],
      [sensing_start |-> "2021-01-07", slc_start_anx |-> [s |-> 100, us |-> 500000],
       burst_index |-> 0, platform |-> "S1A", polarization |-> "vh", swath_index |-> 0] }

\* Relative orbits: the first, the second, one in the middle and the last of the cycle.
RelativeOrbits == {1, 2, 88, ORBITS_PER_CYCLE}

\* azimuthAnxTime values: around PREAMBLE_LENGTH (2.299849 s) and
\* PREAMBLE_LENGTH + BEAM_CYCLE_TIME (5.058122 s), and near the end of an orbit.
AnxTimes ==
    [s : (0..MaxAnxSec) \cup {5, 5924}, us : {0, 58122, 299848, 299849, 999999}]

\* convert_dt(self.sensing_start).strftime('%Y%m%dT%H%M%S') of the sensing
\* times the profiles hold.
reformatted_datetime(sensing_start) ==
    CASE sensing_start = "2021-01-07" -> "20210107T000000"
      [] sensing_start = "2021-02-12" -> "20210212T000000"

\* polarization.upper()
upper(polarization) == IF polarization = "vv" THEN "VV" ELSE "VH"

\* An identity text without the sub-swath.
absolute_burst_id_without_swath(self, relative_burst_id) ==
    << "S1_SLC", reformatted_datetime(self.sensing_start), relative_burst_id >>

\* f'S1_SLC_{reformatted_datetime}_{relative_burst_id}_IW{swath_index + 1}' of
\* src/bursts/bursts.py, kept as the tuple of the values the text is made of.
absolute_burst_id(self, relative_burst_id) ==
    << "S1_SLC", reformatted_datetime(self.sensing_start), relative_burst_id,
       "IW", self.swath_index + 1 >>

\* The identity text of src/bursts.py, which has the polarization in it.
bursts_py_absolute_burst_id(self, relative_burst_id) ==
    << "S1_SLC", reformatted_datetime(self.sensing_start), upper(self.polarization),
       relative_burst_id, "IW", self.swath_index + 1 >>

\* BurstMetadata.__init__, the identity part: burst_anx_delta, burst_anx,
\* relative_burst_id and stack_id; bursts_py_relative_burst_id is what the
\* revision src/bursts.py computes from the same fields.  stack_id, the text
\* '{relative_burst_id}_IW{swath_index + 1}', is kept as the pair of its numbers.
\* sensing_start and sensing_stop are both read with
\* findtext('.//{*}azimuthTime') of the burst's annotation: the same text.
BurstMetadataId(relative_orbit, azimuthAnxTime, profile) ==
    LET self == [relative_orbit |-> relative_orbit,
                 burst_anx_delta |-> azimuthAnxTime,
                 slc_start_anx |-> profile.slc_start_anx,
                 burst_anx |-> AddTime(profile.slc_start_anx, azimuthAnxTime),
                 sensing_start |-> profile.sensing_start,
                 sensing_stop |-> profile.sensing_start,
                 burst_index |-> profile.burst_index,
                 platform |-> profile.platform,
                 polarization |-> profile.polarization,
                 swath_index |-> profile.swath_index]
        id == calculate_relative_burstid(self)
    IN  [self |-> self,
         relative_burst_id |-> id,
         stack_id |-> <<id, self.swath_index + 1>>,
         bursts_py_relative_burst_id |-> bursts_py_calculate_relative_burstid(self),
         absolute_burst_id |-> absolute_burst_id(self, id),
         bursts_py_absolute_burst_id |->
             bursts_py_absolute_burst_id(self, bursts_py_calculate_relative_burstid(self))]

InitId ==
    /\ annotations = [s \in SwathIds |-> << >>]
    /\ pc = "id"
    /\ swath_pos = 1
    /\ burst_index = 0
    /\ bursts = << >>
    /\ error = ""
    /\ fetch = NoFetch
    /\ idb = << >>
    /\ geo = NoGeo
    /\ OthersIdle

\* A burst is constructed, of any product and swath.
BuildBurst ==
    /\ pc = "id"
    /\ idb = << >>
    /\ \E relative_orbit \in RelativeOrbits, azimuthAnxTime \in AnxTimes, profile \in Profiles :
          idb' = << BurstMetadataId(relative_orbit, azimuthAnxTime, profile) >>
    /\ UNCHANGED <<annotations, pc, swath_pos, burst_index, bursts, error, fetch, geo, dl, stack, dec, meta, pool, paths, poly, valid, cat>>

\* A second burst is constructed, of the same or of any other product and
\* swath, to stand beside the first.
BuildOtherBurst ==
    /\ pc = "id"
    /\ Len(idb) = 1
    /\ \E relative_orbit \in RelativeOrbits, azimuthAnxTime \in AnxTimes, profile \in Profiles :
          idb' = Append(idb, BurstMetadataId(relative_orbit, azimuthAnxTime, profile))
    /\ UNCHANGED <<annotations, pc, swath_pos, burst_index, bursts, error, fetch, geo, dl, stack, dec, meta, pool, paths, poly, valid, cat>>

NextId == BuildBurst \/ BuildOtherBurst

SpecId == InitId /\ [][NextId]_vars

TimeLeq(x, y) == x.s < y.s \/ (x.s = y.s /\ x.us <= y.us)

PreambleTime == [s |-> PREAMBLE_LENGTH_US \div MICRO, us |-> PREAMBLE_LENGTH_US % MICRO]

BeforePreamble(b) ==
    /\ b.self.relative_orbit = 1
    /\ TimeLeq(b.self.burst_anx_delta, PreambleTime)
    /\ b.self.burst_anx_delta # PreambleTime

\* C4: calculate_relative_burstid returns exactly
\* 1 + floor(((relative_orbit - 1) * NOMINAL_ORBITAL_DURATION + azimuth_anx_time
\* - PREAMBLE_LENGTH) / BEAM_CYCLE_TIME), with no further adjustment.
C4_CanonicalFormula ==
    \A k \in 1..Len(idb) :
        idb[k].relative_burst_id
            = 1 + FloorCycles(idb[k].self.relative_orbit, idb[k].self.burst_anx_delta)

\* C5: relative_burst_id depends only on relative_orbit and azimuthAnxTime: two
\* bursts that agree on both have the same relative_burst_id and, with the same
\* swath index, the same stack_id, whatever their sensing date, slc_start_anx,
\* burst_index, platform and polarization are.
C5_IdDependsOnOrbitAndAnxOnly ==
    \A j, k \in 1..Len(idb) :
        (/\ idb[j].self.relative_orbit = idb[k].self.relative_orbit
         /\ idb[j].self.burst_anx_delta = idb[k].self.burst_anx_delta)
        => /\ idb[j].relative_burst_id = idb[k].relative_burst_id
           /\ (idb[j].self.swath_index = idb[k].self.swath_index
               => idb[j].stack_id = idb[k].stack_id)

\* Two bursts of the same orbit, ANX time and sub-swath but of different dates,
\* products, platforms, polarizations and burst indexes have been built.
C5_Witness ==
    /\ Len(idb) = 2
    /\ idb[1].self.relative_orbit = idb[2].self.relative_orbit
    /\ idb[1].self.burst_anx_delta = idb[2].self.burst_anx_delta
    /\ idb[1].self.swath_index = idb[2].self.swath_index
    /\ idb[1].self.sensing_start # idb[2].self.sensing_start
    /\ idb[1].self.slc_start_anx # idb[2].self.slc_start_anx
    /\ idb[1].self.burst_index # idb[2].self.burst_index
    /\ idb[1].self.platform # idb[2].self.platform
    /\ idb[1].self.polarization # idb[2].self.polarization

\* C6: relative_burst_id is monotonic non-decreasing in the azimuth ANX time:
\* for one relative_orbit, a1 <= a2 implies id(a1) <= id(a2).
C6_MonotonicInAnxTime ==
    \A j, k \in 1..Len(idb) :
        (/\ idb[j].self.relative_orbit = idb[k].self.relative_orbit
         /\ TimeLeq(idb[j].self.burst_anx_delta, idb[k].self.burst_anx_delta))
        => idb[j].relative_burst_id <= idb[k].relative_burst_id

\* Two bursts of one orbit, the later one in a later beam cycle.
C6_Witness ==
    /\ Len(idb) = 2
    /\ idb[1].self.relative_orbit = idb[2].self.relative_orbit
    /\ TimeLeq(idb[1].self.burst_anx_delta, idb[2].self.burst_anx_delta)
    /\ idb[1].relative_burst_id < idb[2].relative_burst_id

\* C7 as claimed: relative_burst_id is at least 1 for every relative_orbit and
\* every azimuth ANX time >= 0, in either revision.
C7_PositiveInBothRevisions ==
    \A k \in 1..Len(idb) :
        /\ idb[k].relative_burst_id >= 1
        /\ idb[k].bursts_py_relative_burst_id >= 1

\* C7 as amended: the revision src/bursts/bursts.py returns at least 1; the
\* revision src/bursts.py returns at least 0, and 0 exactly for the ANX times
\* before PREAMBLE_LENGTH on relative orbit 1.
C7_PositiveOnlyWithIncrement ==
    \A k \in 1..Len(idb) :
        /\ idb[k].relative_burst_id >= 1
        /\ idb[k].bursts_py_relative_burst_id >= 0
        /\ (idb[k].bursts_py_relative_burst_id = 0 <=> BeforePreamble(idb[k]))

\* A burst of relative orbit 1 whose ANX time is before PREAMBLE_LENGTH.
C7_Witness ==
    \E k \in 1..Len(idb) : BeforePreamble(idb[k]) /\ idb[k].relative_burst_id = 1

\* C8: the two revisions differ by a constant: for every relative_orbit and
\* azimuth ANX time the revision src/bursts/bursts.py returns the ID of the
\* revision src/bursts.py plus 1.
C8_RevisionsDifferByOne ==
    \A k \in 1..Len(idb) :
        idb[k].relative_burst_id = idb[k].bursts_py_relative_burst_id + 1

\* Bursts before and after the first beam cycle boundary, on the first and on
\* a later orbit.
C8_Witness ==
    /\ Len(idb) = 2
    /\ BeforePreamble(idb[1])
    /\ idb[2].self.relative_orbit > 1
    /\ idb[2].bursts_py_relative_burst_id > 1

\* The bursts of swath s in the returned list.
BurstsOf(s) == { k \in 1..Len(bursts) : bursts[k].swath = s }

\* C2: within one swath every BurstMetadata has the same byte_length, the
\* difference of the first two declared byteOffsets, whatever its burst_index,
\* and the byte_offset of burst i is the i-th declared byteOffset.
C2_ByteLengthIsFirstStride ==
    \A k \in 1..Len(bursts) :
        LET b == bursts[k]
            offsets == annotations[b.swath]
        IN  /\ b.byte_length = offsets[2] - offsets[1]
            /\ b.byte_offset = offsets[b.burst_index + 1]
            /\ \A j \in BurstsOf(b.swath) : bursts[j].byte_length = b.byte_length

\* A swath of three bursts with unequal strides has been addressed completely.
C2_Witness ==
    /\ pc = "returned"
    /\ \E k \in 1..Len(bursts) :
          /\ bursts[k].burst_index = 2
          /\ LET offsets == annotations[bursts[k].swath]
             IN  offsets[3] - offsets[2] # offsets[2] - offsets[1]

\* Some adjacent pair of declared byteOffsets of swath s differs from the
\* stride of the first pair.
InconsistentLayout(s) ==
    LET offsets == annotations[s]
    IN  /\ Len(offsets) >= 2
        /\ \E i \in 1..(Len(offsets) - 1) :
              offsets[i + 1] - offsets[i] # offsets[2] - offsets[1]

\* C3: addressing validates the stride: a swath in which some adjacent pair of
\* byteOffsets differs from byteOffset[1] - byteOffset[0] fails with
\* InconsistentBurstLayout and yields no Burst record.
C3_StrideValidated ==
    pc = "returned" =>
        \A s \in SwathIds :
            InconsistentLayout(s) =>
                /\ BurstsOf(s) = {}
                /\ error = "InconsistentBurstLayout"

\* ------------------------------------------------ decoding (SpecDecode)
MaxBytes == 9       \* length of the byte string handed to the decoder: 0..MaxBytes
MaxSamples == 2     \* lines * samples of the requested shape: 1..MaxSamples

\* The values every specification after the first four pins for the
\* variables of get_burst_metadata, SpecFetch, SpecId and SpecGeom.
FirstIdle(p) ==
    /\ annotations = [s \in SwathIds |-> << >>]
    /\ pc = p
    /\ swath_pos = 1
    /\ burst_index = 0
    /\ bursts = << >>
    /\ error = ""
    /\ fetch = NoFetch
    /\ idb = << >>
    /\ geo = NoGeo

\* One little-endian signed 16-bit integer from two bytes.
Int16(lo, hi) == LET u == lo + 256 * hi IN IF u >= 32768 THEN u - 65536 ELSE u

\* np.frombuffer(burst_bytes, dtype=np.int16).astype(float): numpy refuses a
\* buffer whose size is not a multiple of the element size; the conversion to
\* float64 keeps every int16 value.
frombuffer(burst_bytes) ==
    IF Len(burst_bytes) % 2 # 0
    THEN [ok |-> FALSE, error |-> "ValueError", array |-> << >>]
    ELSE [ok |-> TRUE, error |-> "",
          array |-> [k \in 1..(Len(burst_bytes) \div 2) |->
                        Int16(burst_bytes[2 * k - 1], burst_bytes[2 * k])]]

\* array.dtype = 'complex': the float64 values are regrouped in pairs (real,
\* imaginary); numpy refuses an odd number of them.
view_complex(tmp_array) ==
    IF Len(tmp_array) % 2 # 0
    THEN [ok |-> FALSE, error |-> "ValueError", array |-> << >>]
    ELSE [ok |-> TRUE, error |-> "",
          array |-> [k \in 1..(Len(tmp_array) \div 2) |->
                        <<tmp_array[2 * k - 1], tmp_array[2 * k]>>]]

\* A reshape that fills the requested shape from the front of the array and
\* drops what is left over.
reshape_truncating(array, shape) ==
    IF Len(array) < shape[1] * shape[2]
    THEN [ok |-> FALSE, error |-> "ValueError", array |-> << >>]
    ELSE [ok |-> TRUE, error |-> "",
          array |-> [l \in 1..shape[1] |->
                        [s \in 1..shape[2] |-> array[(l - 1) * shape[2] + s]]]]

\* array.reshape(shape).astype(np.csingle): row-major, and only when the
\* number of elements is lines * samples; complex64 keeps every int16 value.
reshape(array, shape) ==
    IF Len(array) # shape[1] * shape[2]
    THEN [ok |-> FALSE, error |-> "ValueError", array |-> << >>]
    ELSE [ok |-> TRUE, error |-> "",
          array |-> [l \in 1..shape[1] |->
                        [s \in 1..shape[2] |-> array[(l - 1) * shape[2] + s]]]]

burst_bytes_to_numpy(burst_bytes, shape) ==
    LET tmp_array == frombuffer(burst_bytes)
        array == view_complex(tmp_array.array)
    IN  IF ~tmp_array.ok THEN tmp_array
        ELSE IF ~array.ok THEN array
        ELSE reshape(array.array, shape)

ByteValues == {1, 255}

ByteStrings == UNION { [1..n -> ByteValues] : n \in 0..MaxBytes }

Shapes == { sh \in (1..MaxSamples) \X (1..MaxSamples) : sh[1] * sh[2] <= MaxSamples }

InitDecode ==
    /\ FirstIdle("decode")
    /\ dl = NoDl /\ stack = NoStack /\ meta = NoMeta /\ LaterIdle("")
    /\ \E burst_bytes \in ByteStrings, shape \in Shapes :
          dec = [pc |-> "call", burst_bytes |-> burst_bytes, shape |-> shape,
                 array |-> << >>, error |-> ""]

DecodeUnchanged ==
    UNCHANGED <<annotations, pc, swath_pos, burst_index, bursts, error, fetch, idb, geo,
                dl, stack, meta, pool, paths, poly, valid, cat>>

\* One call of burst_bytes_to_numpy: it returns the array or raises.
BurstBytesToNumpy ==
    /\ dec.pc = "call"
    /\ LET r == burst_bytes_to_numpy(dec.burst_bytes, dec.shape)
       IN  dec' = [dec EXCEPT !.pc = IF r.ok THEN "returned" ELSE "raised",
                              !.array = r.array, !.error = r.error]
    /\ DecodeUnchanged

NextDecode == BurstBytesToNumpy

SpecDecode == InitDecode /\ [][NextDecode]_vars

\* ------------------------------------- one burst download (edl_download_burst)
\* utils.convert_dt: a datetime becomes its string, a string is parsed back;
\* the format keeps the microseconds, so the instant t survives both ways.
convert_dt(dt_object) ==
    IF dt_object.type = "str"
    THEN [type |-> "datetime", t |-> dt_object.t]
    ELSE [type |-> "str", t |-> dt_object.t]

\* properties['id'] = item.id; properties['datetime'] = convert_dt(item.datetime):
\* both are written into the dict the item itself holds.
SetIdAndDatetime(item) ==
    [k \in (DOMAIN item.properties) \cup {"id", "datetime"} |->
        IF k = "id" THEN item.id
        ELSE IF k = "datetime" THEN convert_dt(item.datetime)
        ELSE item.properties[k]]

\* The same function working on a copy of the dict: the item keeps the
\* properties it was built with.
burst_numpy_to_xarray_on_copy(item, array) ==
    [item |-> item,
     burst_data_array |-> [kind |-> "DataArray", attrs |-> SetIdAndDatetime(item),
                           data |-> array]]

\* burst_numpy_to_xarray(item, array): the item after the call, and the
\* DataArray whose attrs are the properties.
burst_numpy_to_xarray(item, array) ==
    [item |-> [item EXCEPT !.properties = SetIdAndDatetime(item)],
     burst_data_array |-> [kind |-> "DataArray", attrs |-> SetIdAndDatetime(item),
                           data |-> array]]

\* http_fs.open(asset['href']): the server answers the request or refuses it.
HttpOpens(remote) == remote.auth

\* edl_download_burst(item, auth, polarization) as one call: the item after
\* the call and the DataArray it returns, or the exception it raises.
edl_download_burst(item, remote) ==
    LET asset == item.asset
        f == Seek(ZipOpen(remote), asset.byte_offset)
        burst_bytes == Read(remote, f, asset.byte_length)
        array == burst_bytes_to_numpy(burst_bytes, <<asset.lines, asset.samples>>)
    IN  IF ~HttpOpens(remote)
        THEN [ok |-> FALSE, error |-> "HttpOpenError", item |-> item]
        ELSE IF ~array.ok
        THEN [ok |-> FALSE, error |-> array.error, item |-> item]
        ELSE [ok |-> TRUE, error |-> "",
              item |-> burst_numpy_to_xarray(item, array.array).item,
              burst_data_array |->
                  burst_numpy_to_xarray(item, array.array).burst_data_array]

\* ---------------------------------------- batch download (SpecStack)
MaxItems == 3       \* length of item_list: 1..MaxItems
MaxThreads == 2     \* the caller's threads argument: None, 0..MaxThreads

\* The threads argument: None is the empty tuple, the integer k is <<k>>.
None == << >>

Truthy(threads) == threads # None /\ threads[1] # 0

ThreadsValues == {None} \cup { <<k>> : k \in 0..MaxThreads }

\* Two STAC items of two products, one burst of one complex sample each;
\* byte_length is lines * samples * 4.
ItemNames == {"X", "Y"}

ItemPool ==
    [n \in ItemNames |->
        [id |-> IF n = "X" THEN "S1_SLC_X" ELSE "S1_SLC_Y",
         datetime |-> [type |-> "datetime", t |-> IF n = "X" THEN 1 ELSE 2],
         properties |-> [stack_id |-> IF n = "X" THEN "1_IW1" ELSE "2_IW1"],
         asset |-> [href |-> n, lines |-> 1, samples |-> 1,
                    byte_offset |-> IF n = "X" THEN 0 ELSE 4, byte_length |-> 4]]]

ItemLists == UNION { [1..n -> ItemNames] : n \in 1..MaxItems }

\* What the server of a product does: it serves the whole measurement file,
\* serves a file that ends one byte before the burst does, or refuses.
Conditions == {"ok", "short", "refused"}

RemoteOf(n, condition) ==
    LET end == ItemPool[n].asset.byte_offset + ItemPool[n].asset.byte_length
    IN  [entry_start |-> 0,
         size |-> IF condition = "short" THEN end - 1 ELSE end,
         auth |-> condition # "refused"]

NoResult == [kind |-> "None"]

NoOutcome == [pc |-> "none", dataset |-> << >>, error |-> ""]

Running(st) == { i \in DOMAIN st.item_list : st.status[i] = "running" }

Queued(st) == { i \in DOMAIN st.item_list : st.status[i] = "queued" }

\* The pool hands the results back before every task has finished.
AnyDone(st) == \E i \in DOMAIN st.item_list : st.status[i] = "done"

\* pqdm returns when every submitted task has finished.
AllDone(st) == \A i \in DOMAIN st.item_list : st.status[i] = "done"

\* A pool that starts a task whenever one is queued.
AlwaysFree(st) == TRUE

\* ThreadPoolExecutor(max_workers=n_jobs): a queued task starts only when
\* fewer than n_jobs are running.
WorkerFree(st) == Cardinality(Running(st)) < st.threads[1]

FirstQueued(st) == CHOOSE i \in Queued(st) : \A j \in Queued(st) : i <= j

Fresh(item_list) ==
    [status |-> [i \in DOMAIN item_list |-> "queued"],
     data_arrays |-> [i \in DOMAIN item_list |-> NoResult],
     log |-> << >>, keys_written |-> << >>, dataset |-> << >>, time |-> << >>,
     error |-> ""]

InitStack ==
    /\ FirstIdle("stack")
    /\ dl = NoDl /\ dec = NoDec /\ meta = NoMeta /\ LaterIdle("")
    /\ \E item_list \in ItemLists, condition \in [ItemNames -> Conditions],
          second \in ThreadsValues :
          stack = [pc |-> "call", call |-> 1, threads |-> None, second |-> second,
                   item_list |-> item_list, item |-> ItemPool,
                   remote |-> [n \in ItemNames |-> RemoteOf(n, condition[n])],
                   first |-> NoOutcome] @@ Fresh(item_list)

StackUnchanged ==
    UNCHANGED <<annotations, pc, swath_pos, burst_index, bursts, error, fetch, idb, geo,
                dl, dec, meta, pool, paths, poly, valid, cat>>

\* `if threads:` - a truthy threads runs the pool, None and 0 the list
\* comprehension.
Dispatch ==
    /\ stack.pc = "call"
    /\ stack' = [stack EXCEPT !.pc = IF Truthy(stack.threads) THEN "pqdm" ELSE "serial"]
    /\ StackUnchanged

\* One element of [edl_download_burst(x, auth, polarization) for x in
\* item_list]: the next item of the list is fetched; an exception leaves the
\* comprehension and edl_download_stack.
SerialFetch ==
    /\ stack.pc = "serial"
    /\ LET i == FirstQueued(stack)
           n == stack.item_list[i]
           r == edl_download_burst(stack.item[n], stack.remote[n])
       IN  IF r.ok
           THEN stack' = [stack EXCEPT
                    !.item[n] = r.item,
                    !.status[i] = "done",
                    !.data_arrays[i] = r.burst_data_array,
                    !.log = stack.log \o << <<"start", i>>, <<"finish", i>> >>,
                    !.pc = IF i = Len(stack.item_list) THEN "collect" ELSE "serial"]
           ELSE stack' = [stack EXCEPT
                    !.status[i] = "done",
                    !.log = stack.log \o << <<"start", i>>, <<"finish", i>> >>,
                    !.error = r.error,
                    !.pc = "raised"]
    /\ StackUnchanged

\* A worker of the pool takes the next submitted argument tuple.
PoolStart ==
    /\ stack.pc = "pqdm"
    /\ Queued(stack) # {}
    /\ WorkerFree(stack)
    /\ LET i == FirstQueued(stack)
       IN  stack' = [stack EXCEPT !.status[i] = "running",
                                  !.log = Append(stack.log, <<"start", i>>)]
    /\ StackUnchanged

\* A running task finishes, in any order: its future holds the DataArray, or
\* the exception, which pqdm puts in the result list in its place.
PoolFinish ==
    /\ stack.pc = "pqdm"
    /\ \E i \in Running(stack) :
          LET n == stack.item_list[i]
              r == edl_download_burst(stack.item[n], stack.remote[n])
          IN  stack' = [stack EXCEPT
                   !.item[n] = r.item,
                   !.status[i] = "done",
                   !.data_arrays[i] = IF r.ok THEN r.burst_data_array
                                      ELSE [kind |-> "Exception", error |-> r.error],
                   !.log = Append(stack.log, <<"finish", i>>)]
    /\ StackUnchanged

\* pqdm returns the results in the order of the arguments.
PoolJoin ==
    /\ stack.pc = "pqdm"
    /\ AllDone(stack)
    /\ stack' = [stack EXCEPT !.pc = "collect"]
    /\ StackUnchanged

\* A dict in which every key holds the value written last.
DictOfLastValue(ids, data_arrays) ==
    [k \in { ids[i] : i \in DOMAIN ids } |-> data_arrays[Len(data_arrays)]]

\* {k: v for k, v in zip(ids, data_arrays)}: the keys in the order they are
\* written and the dict that results, a later value replacing an earlier one
\* under the same key.
DictOf(ids, data_arrays) ==
    [k \in { ids[i] : i \in DOMAIN ids } |->
        data_arrays[CHOOSE i \in DOMAIN ids :
                        ids[i] = k /\ \A j \in DOMAIN ids : ids[j] = k => j <= i]]

\* ids, dates and the Dataset: x.attrs of anything that is not a DataArray
\* raises AttributeError.
Collect ==
    /\ stack.pc = "collect"
    /\ IF \E i \in DOMAIN stack.data_arrays : stack.data_arrays[i].kind # "DataArray"
       THEN stack' = [stack EXCEPT !.pc = "raised", !.error = "AttributeError"]
       ELSE LET ids == [i \in DOMAIN stack.data_arrays |-> stack.data_arrays[i].attrs["id"]]
                dates == [i \in DOMAIN stack.data_arrays |->
                             convert_dt(stack.data_arrays[i].attrs["datetime"])]
            IN  stack' = [stack EXCEPT !.pc = "returned",
                                       !.keys_written = ids,
                                       !.time = dates,
                                       !.dataset = DictOf(ids, stack.data_arrays)]
    /\ StackUnchanged

\* The caller calls edl_download_stack again on the same item list, now with
\* its threads argument.
CallAgain ==
    /\ stack.pc \in {"returned", "raised"}
    /\ stack.call = 1
    /\ stack' = [pc |-> "call", call |-> 2, threads |-> stack.second,
                 second |-> stack.second, item_list |-> stack.item_list,
                 item |-> stack.item, remote |-> stack.remote,
                 first |-> [pc |-> stack.pc, dataset |-> stack.dataset,
                            error |-> stack.error]] @@ Fresh(stack.item_list)
    /\ StackUnchanged

NextStack ==
    Dispatch \/ SerialFetch \/ PoolStart \/ PoolFinish \/ PoolJoin \/ Collect \/ CallAgain

SpecStack == InitStack /\ [][NextStack]_vars

\* ----------------------------------------------------------------- claims
\* C11: when edl_download_stack is called with threads = k >= 1 on an item
\* list it was first called on serially (threads = None), it returns exactly
\* when the serial call returned, and then with the same mapping from burst
\* identity to data, whatever the order in which the pool's tasks finished.
C11_ThreadedEqualsSerial ==
    (stack.pc \in {"returned", "raised"} /\ stack.call = 2 /\ Truthy(stack.threads)) =>
        /\ stack.pc = stack.first.pc
        /\ stack.pc = "returned" => stack.dataset = stack.first.dataset

\* A threaded call has returned two bursts after the task of the later item
\* finished before the task of an earlier one.
C11_Witness ==
    /\ stack.pc = "returned" /\ stack.call = 2 /\ Truthy(stack.threads)
    /\ Cardinality(DOMAIN stack.dataset) = 2
    /\ \E a, b \in DOMAIN stack.log :
          /\ a < b
          /\ stack.log[a][1] = "finish" /\ stack.log[b][1] = "finish"
          /\ stack.log[a][2] > stack.log[b][2]

\* C12: when edl_download_stack ends, every burst of the list whose own fetch
\* succeeds has its array in the result, whatever happened to the fetches of
\* the other bursts: a failed fetch neither ends the batch nor takes the
\* place of another burst's result.
C12_FailureKeepsOtherResults ==
    stack.pc \in {"returned", "raised"} =>
        \A i \in DOMAIN stack.item_list :
            LET n == stack.item_list[i]
                r == edl_download_burst(stack.item[n], stack.remote[n])
            IN  r.ok =>
                    /\ stack.pc = "returned"
                    /\ stack.item[n].id \in DOMAIN stack.dataset
                    /\ stack.dataset[stack.item[n].id].data = r.burst_data_array.data

ExpectedLength(shape) == shape[1] * shape[2] * 4

DlItems ==
    { [ItemPool["X"] EXCEPT !.asset =
          [href |-> "X", lines |-> shape[1], samples |-> shape[2],
           byte_offset |-> it.byte_offset, byte_length |-> it.byte_length]] :
        it \in Items, shape \in Shapes }

DlRemotes == [entry_start : 0..MaxEntryStart, size : 0..MaxFile, auth : BOOLEAN]

InitBurst ==
    /\ FirstIdle("burst")
    /\ stack = NoStack /\ dec = NoDec /\ meta = NoMeta /\ LaterIdle("")
    /\ \E item \in DlItems, remote \in DlRemotes :
          dl = [pc |-> "call", item |-> item, made |-> item, remote |-> remote,
                http_f |-> "none", member |-> "none", f |-> NoHandle,
                burst_bytes |-> << >>, array |-> << >>,
                burst_data_array |-> NoResult, error |-> "", log |-> << >>]

BurstUnchanged ==
    UNCHANGED <<annotations, pc, swath_pos, burst_index, bursts, error, fetch, idb, geo,
                stack, dec, meta, pool, paths, poly, valid, cat>>

\* with http_fs.open(asset['href']) as http_f: the outer stream is opened, or
\* the open raises and the call ends.
DlHttpOpen ==
    /\ dl.pc = "call"
    /\ IF HttpOpens(dl.remote)
       THEN dl' = [dl EXCEPT !.pc = "http_open", !.http_f = "open",
                             !.log = Append(dl.log, "http_open")]
       ELSE dl' = [dl EXCEPT !.pc = "raised", !.error = "HttpOpenError",
                             !.log = Append(dl.log, "http_open")]
    /\ BurstUnchanged

\* zip_fs = fsspec.filesystem('zip', fo=http_f): the ZIP central directory is
\* read through the outer stream.
DlZipDirectory ==
    /\ dl.pc = "http_open"
    /\ dl' = [dl EXCEPT !.pc = "directory", !.log = Append(dl.log, "directory")]
    /\ BurstUnchanged

\* with zip_fs.open(asset['interior_path']) as f.
DlMemberOpen ==
    /\ dl.pc = "directory"
    /\ dl' = [dl EXCEPT !.pc = "member_open", !.member = "open",
                        !.f = ZipOpen(dl.remote),
                        !.log = Append(dl.log, "member_open")]
    /\ BurstUnchanged

\* f.seek(byte_offset)
DlSeek ==
    /\ dl.pc = "member_open"
    /\ dl' = [dl EXCEPT !.pc = "seeked", !.f = Seek(dl.f, dl.item.asset.byte_offset),
                        !.log = Append(dl.log, "seek")]
    /\ BurstUnchanged

\* burst_bytes = f.read(byte_length)
DlRead ==
    /\ dl.pc = "seeked"
    /\ dl' = [dl EXCEPT !.pc = "read",
                        !.burst_bytes = Read(dl.remote, dl.f, dl.item.asset.byte_length),
                        !.f = [dl.f EXCEPT !.pos = dl.f.pos +
                                   ReadCount(dl.f, dl.item.asset.byte_length)],
                        !.log = Append(dl.log, "read")]
    /\ BurstUnchanged

\* The inner with block ends: the member handle is closed.
DlMemberClose ==
    /\ dl.pc = "read"
    /\ dl' = [dl EXCEPT !.pc = "member_closed", !.member = "closed",
                        !.log = Append(dl.log, "member_close")]
    /\ BurstUnchanged

\* The outer with block ends: the outer stream is closed.
DlHttpClose ==
    /\ dl.pc = "member_closed"
    /\ dl' = [dl EXCEPT !.pc = "http_closed", !.http_f = "closed",
                        !.log = Append(dl.log, "http_close")]
    /\ BurstUnchanged

\* A decoder call placed inside the with blocks, right after the read.
AfterRead(d) == d.pc = "read"

\* The decoder call stands after both with blocks.
AfterWith(d) == d.pc = "http_closed"

\* array = utils.burst_bytes_to_numpy(burst_bytes, (lines, samples))
DlDecode ==
    /\ AfterWith(dl)
    /\ LET r == burst_bytes_to_numpy(dl.burst_bytes,
                                     <<dl.item.asset.lines, dl.item.asset.samples>>)
       IN  dl' = [dl EXCEPT !.pc = IF r.ok THEN "decoded" ELSE "raised",
                            !.array = r.array, !.error = r.error,
                            !.log = Append(dl.log, "decode")]
    /\ BurstUnchanged

\* burst_data_array = burst_numpy_to_xarray(item, array); return
DlToXarray ==
    /\ dl.pc = "decoded"
    /\ LET r == burst_numpy_to_xarray(dl.item, dl.array)
       IN  dl' = [dl EXCEPT !.pc = "returned", !.item = r.item,
                            !.burst_data_array = r.burst_data_array,
                            !.log = Append(dl.log, "xarray")]
    /\ BurstUnchanged

NextBurst ==
    \/ DlHttpOpen \/ DlZipDirectory \/ DlMemberOpen \/ DlSeek \/ DlRead
    \/ DlMemberClose \/ DlHttpClose \/ DlDecode \/ DlToXarray

SpecBurst == InitBurst /\ [][NextBurst]_vars

\* The steps of SpecBurst end as edl_download_burst, taken as one call, does.
StepsAgreeWithCall ==
    LET r == edl_download_burst(dl.made, dl.remote)
    IN  /\ dl.pc = "returned" =>
              r.ok /\ r.burst_data_array = dl.burst_data_array /\ r.item = dl.item
        /\ dl.pc = "raised" => ~r.ok /\ r.error = dl.error

Occurs(log, event) == \E a \in DOMAIN log : log[a] = event

\* C14: a content read that returned fewer than byte_length bytes never
\* reaches the decoder: whenever burst_bytes_to_numpy has been called, it was
\* called on exactly byte_length bytes.
C14_ShortReadNeverDecoded ==
    Occurs(dl.log, "decode") => Len(dl.burst_bytes) = dl.item.asset.byte_length

\* C16: the item handed to edl_download_burst is, at every step of the fetch
\* and after it, the item as it was constructed: no field of it has changed.
C16_DescriptorNeverMutated == dl.item = dl.made

Before(log, first, second) ==
    \A b \in DOMAIN log : log[b] = second => \E a \in 1..(b - 1) : log[a] = first

\* The steps of one fetch in the order of the source text.
FetchOrder ==
    << "http_open", "directory", "member_open", "seek", "read",
       "member_close", "http_close", "decode", "xarray" >>

\* C20: the steps of one edl_download_burst call are taken in one order only:
\* outer stream opened, central directory read, member opened, seek, content
\* read, member handle closed, outer stream closed, decode. The content read
\* never precedes the directory lookup, and the decoder is called only when
\* both handles are closed.
C20_FetchStepsOrdered ==
    /\ Len(dl.log) <= Len(FetchOrder)
    /\ dl.log = SubSeq(FetchOrder, 1, Len(dl.log))
    /\ Before(dl.log, "directory", "read") /\ Before(dl.log, "seek", "read")
    /\ Occurs(dl.log, "decode") => dl.http_f = "closed" /\ dl.member = "closed"
    /\ Occurs(dl.log, "read") /\ ~Occurs(dl.log, "member_close") =>
           dl.http_f = "open" /\ dl.member = "open"

\* A fetch has read its bytes through the member handle, closed both handles
\* and decoded the bytes into an array.
C20_Witness ==
    /\ dl.pc = "decoded"
    /\ Len(dl.burst_bytes) = dl.item.asset.byte_length
    /\ dl.array # << >>

\* ------------------------------------- SLCMetadata.__init__ (SpecMeta)
MaxSwaths == 2      \* swath elements of a manifest: 0..MaxSwaths

\* What findall / findtext give for an element: the empty tuple when the
\* document lacks it, <<text>> when it has it.
Element(texts) == { << >> } \cup { <<x>> : x \in texts }

Manifests ==
    [relativeOrbitNumber : Element({"1"}), orbitNumber : Element({"30000"}),
     pass : Element({"ASCENDING"}), startTimeANX : Element({"0.5"}),
     swath : 0..MaxSwaths]

\* The annotation files of a product, by sub-swath and polarization, and
\* whether a file holds the elements read from it.
AnnotationKeys == { "s1a-iw1-slc-vv", "s1a-iw2-slc-vv", "s1a-iw2-slc-vh" }

PolarizationOf(k) == IF k = "s1a-iw2-slc-vh" THEN "vh" ELSE "vv"

IsIw2(k) == k # "s1a-iw1-slc-vv"

AnnotationSets ==
    UNION { [keys -> [slantRangeTime : Element({"0.005"}), burstList : Element({"9"})]] :
                keys \in SUBSET AnnotationKeys }

\* int(text) for the texts the documents of this model hold.
int(text) == CASE text = "1" -> 1 [] text = "9" -> 9 [] text = "30000" -> 30000

\* float(text): the number the text denotes, kept as its tagged text.
float(text) == <<"float", text>>

\* int(manifest.findall(path)[0].text): IndexError when nothing is found.
IntOfFirst(found) ==
    IF found = << >> THEN [ok |-> FALSE, error |-> "IndexError"]
    ELSE [ok |-> TRUE, error |-> "", value |-> int(found[1])]

\* manifest.findtext(path).lower(): findtext gives None when nothing is found,
\* and None has no lower().
LowerText(found) ==
    IF found = << >> THEN [ok |-> FALSE, error |-> "AttributeError"]
    ELSE [ok |-> TRUE, error |-> "", value |-> <<"lower", found[1]>>]

\* float(manifest.findtext(path)): float(None) is a TypeError.
FloatText(found) ==
    IF found = << >> THEN [ok |-> FALSE, error |-> "TypeError"]
    ELSE [ok |-> TRUE, error |-> "", value |-> float(found[1])]

\* calculate_iw2_mid_range: the first annotation with 'iw2' in its key, and
\* the slant range time read from it.
calculate_iw2_mid_range(annotations_) ==
    LET iw2 == { k \in DOMAIN annotations_ : IsIw2(k) }
    IN  IF iw2 = {} THEN [ok |-> FALSE, error |-> "IndexError"]
        ELSE FloatText(annotations_[CHOOSE k \in iw2 : TRUE].slantRangeTime)

\* The constructor's statements in order: the first that raises ends it.
\* polarizations is list({...}) of the annotation keys' polarizations, in the
\* order the set happens to iterate in.
SLCMetadata(manifest, annotations_, polarizations) ==
    LET relative_orbit == IntOfFirst(manifest.relativeOrbitNumber)
        absolute_orbit == IntOfFirst(manifest.orbitNumber)
        orbit_direction == LowerText(manifest.pass)
        slc_start_anx == FloatText(manifest.startTimeANX)
        n_swaths == manifest.swath
        iw2_mid_range == calculate_iw2_mid_range(annotations_)
        raised(r) == [ok |-> FALSE, error |-> r.error]
    IN  IF ~relative_orbit.ok THEN raised(relative_orbit)
        ELSE IF ~absolute_orbit.ok THEN raised(absolute_orbit)
        ELSE IF ~orbit_direction.ok THEN raised(orbit_direction)
        ELSE IF ~slc_start_anx.ok THEN raised(slc_start_anx)
        ELSE IF ~iw2_mid_range.ok THEN raised(iw2_mid_range)
        ELSE [ok |-> TRUE, error |-> "",
              slc |-> [relative_orbit |-> relative_orbit.value,
                       absolute_orbit |-> absolute_orbit.value,
                       polarizations |-> polarizations,
                       orbit_direction |-> orbit_direction.value,
                       slc_start_anx |-> slc_start_anx.value,
                       n_swaths |-> n_swaths,
                       iw2_slant_range_time |-> iw2_mid_range.value]]

\* The orders list(set) can give the polarizations of the annotation keys.
PolarizationLists(annotations_) ==
    LET S == { PolarizationOf(k) : k \in DOMAIN annotations_ }
    IN  { l \in UNION { [1..n -> S] : n \in 0..Cardinality(S) } :
            Len(l) = Cardinality(S) /\ \A q \in S : \E a \in DOMAIN l : l[a] = q }

\* product(slc.polarizations, range(slc.n_swaths))
Product(polarizations, n_swaths) ==
    [a \in 1..(Len(polarizations) * n_swaths) |->
        [polarization |-> polarizations[((a - 1) \div n_swaths) + 1],
         swath_index |-> (a - 1) % n_swaths]]

IwOf(k) == IF k = "s1a-iw1-slc-vv" THEN 1 ELSE 2

\* SwathMetadata.__init__ up to n_bursts: the annotation of the swath is the
\* first whose path matches the swath and polarization, and n_bursts is the
\* count attribute of its burstList; find gives None for a missing burstList.
SwathMetadataNBursts(annotations_, polarization, swath_index) ==
    LET match == { k \in DOMAIN annotations_ :
                      IwOf(k) = swath_index + 1 /\ PolarizationOf(k) = polarization }
    IN  IF match = {} THEN [ok |-> FALSE, error |-> "IndexError"]
        ELSE LET burstList == annotations_[CHOOSE k \in match : TRUE].burstList
             IN  IF burstList = << >> THEN [ok |-> FALSE, error |-> "AttributeError"]
                 ELSE [ok |-> TRUE, error |-> "", n_bursts |-> int(burstList[1])]

InitMeta ==
    /\ FirstIdle("meta")
    /\ dl = NoDl /\ stack = NoStack /\ dec = NoDec /\ LaterIdle("")
    /\ \E manifest \in Manifests, annotations_ \in AnnotationSets :
          meta = [pc |-> "call", manifest |-> manifest, annotations |-> annotations_,
                  slc |-> << >>, polarization_swath |-> << >>, swaths |-> << >>,
                  error |-> ""]

MetaUnchanged ==
    UNCHANGED <<annotations, pc, swath_pos, burst_index, bursts, error, fetch, idb, geo,
                dl, stack, dec, pool, paths, poly, valid, cat>>

\* slc = SLCMetadata(safe_url, manifest, annotations) and the product of its
\* polarizations and swath indices.
SLCMetadataInit ==
    /\ meta.pc = "call"
    /\ \E polarizations \in PolarizationLists(meta.annotations) :
          LET r == SLCMetadata(meta.manifest, meta.annotations, polarizations)
          IN  IF r.ok
              THEN meta' = [meta EXCEPT
                       !.pc = "slc", !.slc = r.slc,
                       !.polarization_swath = Product(polarizations, r.slc.n_swaths)]
              ELSE meta' = [meta EXCEPT !.pc = "raised", !.error = r.error]
    /\ MetaUnchanged

\* swath = SwathMetadata(slc, polarization, swath_index) for the next pair.
SwathMetadataOfProduct ==
    /\ meta.pc = "slc"
    /\ Len(meta.swaths) < Len(meta.polarization_swath)
    /\ LET p == meta.polarization_swath[Len(meta.swaths) + 1]
           r == SwathMetadataNBursts(meta.annotations, p.polarization, p.swath_index)
       IN  IF r.ok
           THEN meta' = [meta EXCEPT !.swaths = Append(meta.swaths,
                             [polarization |-> p.polarization,
                              swath_index |-> p.swath_index, n_bursts |-> r.n_bursts])]
           ELSE meta' = [meta EXCEPT !.pc = "raised", !.error = r.error]
    /\ MetaUnchanged

\* The loop over the product has ended: every swath it named is addressed.
ProductDone ==
    /\ meta.pc = "slc"
    /\ Len(meta.swaths) = Len(meta.polarization_swath)
    /\ meta' = [meta EXCEPT !.pc = "returned"]
    /\ MetaUnchanged

NextMeta == SLCMetadataInit \/ SwathMetadataOfProduct \/ ProductDone

SpecMeta == InitMeta /\ [][NextMeta]_vars

\* C15: a product whose manifest or annotations lack a required element is
\* never addressed as if it were complete: whenever the addressing of a
\* product returns, the manifest held its orbit numbers, pass, ANX time and
\* at least one swath element, so that no derived field was silently left at
\* 0 or empty.
C15_NoSilentDefault ==
    meta.pc = "returned" =>
        /\ meta.manifest.relativeOrbitNumber # << >>
        /\ meta.manifest.orbitNumber # << >>
        /\ meta.manifest.pass # << >>
        /\ meta.manifest.startTimeANX # << >>
        /\ meta.manifest.swath > 0
        /\ meta.slc.n_swaths > 0
        /\ meta.slc.polarizations # << >>

\* Two bursts built from one product: same platform, track, start and date.
SameProduct(a, b) ==
    /\ a.self.platform = b.self.platform
    /\ a.self.relative_orbit = b.self.relative_orbit
    /\ a.self.slc_start_anx = b.self.slc_start_anx
    /\ a.self.sensing_start = b.self.sensing_start

\* C17 as stated: two bursts of one product that differ in polarization, in
\* swath index or in relative burst ID have different absolute_burst_id.
C17_DistinctAcrossPolarization ==
    (/\ Len(idb) = 2 /\ SameProduct(idb[1], idb[2])
     /\ \/ idb[1].self.polarization # idb[2].self.polarization
        \/ idb[1].self.swath_index # idb[2].self.swath_index
        \/ idb[1].relative_burst_id # idb[2].relative_burst_id)
        => idb[1].absolute_burst_id # idb[2].absolute_burst_id

\* C17: in src/bursts/bursts.py two bursts of one product have the same
\* absolute_burst_id exactly when they agree in swath index and relative burst
\* ID, whatever their polarizations; in src/bursts.py, whose identity text has
\* the polarization in it, exactly when they agree in polarization as well.
C17_IdentityFromDateIdSwath ==
    (Len(idb) = 2 /\ SameProduct(idb[1], idb[2])) =>
        /\ (idb[1].absolute_burst_id = idb[2].absolute_burst_id) <=>
              (/\ idb[1].self.swath_index = idb[2].self.swath_index
               /\ idb[1].relative_burst_id = idb[2].relative_burst_id)
        /\ (idb[1].bursts_py_absolute_burst_id = idb[2].bursts_py_absolute_burst_id) <=>
              (/\ idb[1].self.swath_index = idb[2].self.swath_index
               /\ idb[1].bursts_py_relative_burst_id = idb[2].bursts_py_relative_burst_id
               /\ idb[1].self.polarization = idb[2].self.polarization)

\* The same burst of one product has been built in both polarizations, and
\* the two share the identity of src/bursts/bursts.py.
C17_Witness ==
    /\ Len(idb) = 2 /\ SameProduct(idb[1], idb[2])
    /\ idb[1].self.polarization # idb[2].self.polarization
    /\ idb[1].self.swath_index = idb[2].self.swath_index
    /\ idb[1].relative_burst_id = idb[2].relative_burst_id
    /\ idb[1].absolute_burst_id = idb[2].absolute_burst_id
    /\ idb[1].bursts_py_absolute_burst_id # idb[2].bursts_py_absolute_burst_id

NoDuplicates(s) == \A a, b \in DOMAIN s : a # b => s[a] # s[b]

\* C18 as stated: in one edl_download_stack call no key of the result mapping
\* is written twice, and the mapping returned has one entry for every fetch
\* of the call.
C18_KeyWrittenOnce ==
    stack.pc = "returned" =>
        /\ NoDuplicates(stack.keys_written)
        /\ Cardinality(DOMAIN stack.dataset) = Len(stack.item_list)

\* C18: the mapping returned by edl_download_stack has exactly one entry for
\* every distinct item identity of the list, holding the data of that burst;
\* a key is written once for every occurrence of its item in the list, so
\* when the identities of the list are pairwise distinct no key is written
\* twice and there is one entry per fetch, and when an item occurs again the
\* later result replaces the earlier one under the same key.
C18_OneEntryPerIdentity ==
    stack.pc = "returned" =>
        LET ids == [i \in DOMAIN stack.item_list |-> stack.item[stack.item_list[i]].id]
        IN  /\ stack.keys_written = ids
            /\ DOMAIN stack.dataset = { ids[i] : i \in DOMAIN ids }
            /\ \A i \in DOMAIN ids :
                  /\ stack.dataset[ids[i]].attrs["id"] = ids[i]
                  /\ stack.dataset[ids[i]].data = stack.data_arrays[i].data
            /\ NoDuplicates(ids) =>
                  /\ NoDuplicates(stack.keys_written)
                  /\ Cardinality(DOMAIN stack.dataset) = Len(stack.item_list)
            /\ ~NoDuplicates(ids) =>
                  Cardinality(DOMAIN stack.dataset) < Len(stack.item_list)

\* A threaded call has returned the results of three fetches, two of them of
\* the same item, under two keys.
C18_Witness ==
    /\ stack.pc = "returned" /\ Truthy(stack.threads)
    /\ Len(stack.item_list) = 3
    /\ ~NoDuplicates(stack.keys_written)
    /\ Cardinality(DOMAIN stack.dataset) = 2

Count(log, event) == Cardinality({ a \in DOMAIN log : log[a] = event })

\* C19: with threads = k the pool never has more than k fetches in progress,
\* every task fetches the one burst of its place in the list, once; with
\* threads None or 0 the bursts are fetched one after the other in list order.
C19_ParallelismSetByCaller ==
    /\ stack.pc = "pqdm" =>
          /\ Cardinality(Running(stack)) <= stack.threads[1]
          /\ Cardinality(Running(stack)) =
                 Cardinality({ i \in DOMAIN stack.item_list :
                                 Count(stack.log, <<"start", i>>) = 1
                                 /\ Count(stack.log, <<"finish", i>>) = 0 })
    /\ stack.pc \in {"call", "serial", "pqdm", "collect", "returned", "raised"} =>
          \A i \in DOMAIN stack.item_list :
              /\ Count(stack.log, <<"start", i>>) <= 1
              /\ Count(stack.log, <<"finish", i>>) <= Count(stack.log, <<"start", i>>)
              /\ stack.status[i] = "done" <=> Count(stack.log, <<"finish", i>>) = 1
    /\ stack.pc \in {"collect", "returned"} =>
          \A i \in DOMAIN stack.item_list : Count(stack.log, <<"finish", i>>) = 1
    /\ (stack.pc # "call" /\ ~Truthy(stack.threads)) =>
          /\ stack.pc # "pqdm"
          /\ \A a \in DOMAIN stack.log :
                stack.log[a] = << IF a % 2 = 1 THEN "start" ELSE "finish", (a + 1) \div 2 >>

\* A pool of two workers has two fetches in progress and a third waiting.
C19_Witness ==
    /\ stack.pc = "pqdm" /\ stack.threads = <<2>>
    /\ Cardinality(Running(stack)) = 2
    /\ Queued(stack) # {}

\* ------------------------- the tasks of a threaded batch (SpecPool)
\* pqdm(args, edl_download_burst, n_jobs=threads) with every task taken
\* statement by statement: each call of edl_download_burst has its own local
\* http_f and f, kept here in a heap of handles that records who opened a
\* handle and who has seeked or read it.
HttpHandle(i) == 2 * i - 1

MemberHandle(i) == 2 * i

NoStream == [state |-> "none", opened_by |-> 0, used_by |-> {}, remote |-> "",
             start |-> 0, size |-> 0, pos |-> 0]

PoolQueued(st) == { i \in DOMAIN st.item_list : st.task[i].pc = "queued" }

PoolRunning(st) ==
    { i \in DOMAIN st.item_list : st.task[i].pc \in {"member_open", "seeked", "read"} }

\* One member handle for the whole batch: every task uses the one opened first.
SharedHandle(st, i) ==
    LET open == { j \in DOMAIN st.item_list : st.handle[MemberHandle(j)].state # "none" }
    IN  MemberHandle(CHOOSE j \in open : \A l \in open : j <= l)

\* The handle the name f denotes in task i: the one its own with statement
\* bound.
HandleOf(st, i) == st.task[i].f

InitPool ==
    /\ FirstIdle("pool")
    /\ dl = NoDl /\ stack = NoStack /\ dec = NoDec /\ meta = NoMeta /\ LaterIdle("pool")
    /\ \E item_list \in ItemLists, condition \in [ItemNames -> Conditions],
          k \in 1..MaxThreads :
          pool = [pc |-> "pqdm", threads |-> <<k>>, item_list |-> item_list,
                  remote |-> [n \in ItemNames |-> RemoteOf(n, condition[n])],
                  task |-> [i \in DOMAIN item_list |->
                               [pc |-> "queued", http_f |-> 0, f |-> 0,
                                burst_bytes |-> << >>, error |-> ""]],
                  handle |-> [h \in 1..(2 * Len(item_list)) |-> NoStream]]

PoolUnchanged ==
    UNCHANGED <<annotations, pc, swath_pos, burst_index, bursts, error, fetch, idb, geo,
                dl, stack, dec, meta, paths, poly, valid, cat>>

\* A free worker takes the next argument tuple and runs edl_download_burst up
\* to the inner with statement: the outer stream is opened (or the open
\* raises and the task ends), the zip filesystem is built on it and the
\* member is opened.
TaskOpen(i) ==
    /\ pool.pc = "pqdm"
    /\ PoolQueued(pool) # {}
    /\ i = CHOOSE j \in PoolQueued(pool) : \A l \in PoolQueued(pool) : j <= l
    /\ Cardinality(PoolRunning(pool)) < pool.threads[1]
    /\ LET n == pool.item_list[i]
           remote == pool.remote[n]
       IN  IF HttpOpens(remote)
           THEN pool' = [pool EXCEPT
                    !.task[i] = [@ EXCEPT !.pc = "member_open",
                                          !.http_f = HttpHandle(i), !.f = MemberHandle(i)],
                    !.handle[HttpHandle(i)] =
                        [NoStream EXCEPT !.state = "open", !.opened_by = i, !.remote = n,
                                         !.used_by = {i}],
                    !.handle[MemberHandle(i)] =
                        [state |-> "open", opened_by |-> i, used_by |-> {}, remote |-> n,
                         start |-> ZipOpen(remote).start, size |-> ZipOpen(remote).size,
                         pos |-> ZipOpen(remote).pos]]
           ELSE pool' = [pool EXCEPT
                    !.task[i] = [@ EXCEPT !.pc = "done", !.error = "HttpOpenError"]]
    /\ PoolUnchanged

\* f.seek(byte_offset) in task i.
TaskSeek(i) ==
    /\ pool.pc = "pqdm"
    /\ pool.task[i].pc = "member_open"
    /\ LET h == HandleOf(pool, i)
           asset == ItemPool[pool.item_list[i]].asset
       IN  pool' = [pool EXCEPT
                !.task[i].pc = "seeked",
                !.handle[h] = [@ EXCEPT
                                   !.pos = Seek(pool.handle[h], asset.byte_offset).pos,
                                   !.used_by = @ \cup {i}]]
    /\ PoolUnchanged

\* burst_bytes = f.read(byte_length) in task i: the bytes come from the
\* handle's position in the archive the handle was opened on.
TaskRead(i) ==
    /\ pool.pc = "pqdm"
    /\ pool.task[i].pc = "seeked"
    /\ LET h == HandleOf(pool, i)
           f == pool.handle[h]
           asset == ItemPool[pool.item_list[i]].asset
       IN  pool' = [pool EXCEPT
                !.task[i].pc = "read",
                !.task[i].burst_bytes = Read(pool.remote[f.remote], f, asset.byte_length),
                !.handle[h] = [@ EXCEPT !.pos = @ + ReadCount(f, asset.byte_length),
                                        !.used_by = @ \cup {i}]]
    /\ PoolUnchanged

\* Both with blocks of task i end, its bytes are decoded and the task returns
\* or raises.
TaskFinish(i) ==
    /\ pool.pc = "pqdm"
    /\ pool.task[i].pc = "read"
    /\ LET asset == ItemPool[pool.item_list[i]].asset
           r == burst_bytes_to_numpy(pool.task[i].burst_bytes, <<asset.lines, asset.samples>>)
       IN  pool' = [pool EXCEPT
                !.task[i].pc = "done",
                !.task[i].error = r.error,
                !.handle[pool.task[i].f].state = "closed",
                !.handle[pool.task[i].http_f].state = "closed"]
    /\ PoolUnchanged

\* pqdm returns when every task has finished.
PoolReturns ==
    /\ pool.pc = "pqdm"
    /\ \A i \in DOMAIN pool.item_list : pool.task[i].pc = "done"
    /\ pool' = [pool EXCEPT !.pc = "joined"]
    /\ PoolUnchanged

TaskStep(i) == TaskSeek(i) \/ TaskRead(i) \/ TaskFinish(i)

NextPool ==
    \/ \E i \in DOMAIN pool.item_list : TaskOpen(i)
    \/ \E i \in DOMAIN pool.item_list : TaskSeek(i)
    \/ \E i \in DOMAIN pool.item_list : TaskRead(i)
    \/ \E i \in DOMAIN pool.item_list : TaskFinish(i)
    \/ PoolReturns

SpecPool == InitPool /\ [][NextPool]_vars

\* C21: in a threaded batch every handle is seeked and read only by the task
\* that opened it, every task reads the bytes it would read if it ran alone,
\* and a task that holds its handles can take its next step whatever the
\* other tasks are doing.
C21_OwnStreamPerTask ==
    /\ \A h \in DOMAIN pool.handle :
          pool.handle[h].state # "none" =>
              pool.handle[h].used_by \subseteq {pool.handle[h].opened_by}
    /\ \A i \in DOMAIN pool.item_list :
          /\ pool.task[i].pc \in {"member_open", "seeked", "read"} =>
                /\ pool.handle[pool.task[i].f].opened_by = i
                /\ pool.handle[pool.task[i].http_f].opened_by = i
                /\ pool.handle[pool.task[i].f].state = "open"
                /\ pool.pc = "pqdm" => ENABLED TaskStep(i)
          /\ pool.task[i].pc = "read" =>
                LET n == pool.item_list[i]
                    asset == ItemPool[n].asset
                IN  pool.task[i].burst_bytes =
                        Read(pool.remote[n], Seek(ZipOpen(pool.remote[n]), asset.byte_offset),
                             asset.byte_length)

\* Two tasks of a pool of two are under way at once, each on the handle it
\* opened, one of them having read its bytes while the other has not yet
\* moved forward.
C21_Witness ==
    /\ pool.pc = "pqdm"
    /\ \E i, j \in DOMAIN pool.item_list :
          /\ i < j
          /\ pool.item_list[i] # pool.item_list[j]
          /\ pool.task[i].pc = "member_open"
          /\ pool.task[j].pc = "read"
          /\ Len(pool.task[j].burst_bytes) = ItemPool[pool.item_list[j]].asset.byte_length
          /\ pool.task[i].f # pool.task[j].f

\* ------------------------------ path lists and pairing (SpecPaths)
MaxFiles == 4       \* fileLocation elements of a manifest: 0..MaxFiles

\* The href of a fileLocation, './<dir>/<prefix>-iw<iw>-slc-<pol>.<ext>', kept
\* as its parts.
Href(dir, prefix, iw, pol, ext) ==
    [lead |-> "./", dir |-> dir, prefix |-> prefix, iw |-> iw, pol |-> pol, ext |-> ext]

\* Files of a product: annotation and measurement files of three swaths, and
\* a calibration file, which lies below ./annotation/ without following the
\* annotation naming.
FileLocations ==
    { Href("annotation", "s1a", 1, "vh", "xml"),
      Href("annotation", "s1a", 1, "vv", "xml"),
      Href("annotation", "s1a", 2, "vv", "xml"),
      Href("annotation/calibration", "calibration-s1a", 1, "vv", "xml"),
      Href("measurement", "s1a", 1, "vh", "tiff"),
      Href("measurement", "s1a", 1, "vv", "tiff"),
      Href("measurement", "s1a", 2, "vv", "tiff") }

\* The orders in which a manifest can list some of these files.
FileLists ==
    { l \in UNION { [1..n -> FileLocations] : n \in 0..MaxFiles } :
        \A a, b \in DOMAIN l : a # b => l[a] # l[b] }

\* re.search('^\./annotation/s1.*xml$', x)
IsAnnotationPath(x) == x.lead = "./" /\ x.dir = "annotation" /\ x.prefix = "s1a" /\ x.ext = "xml"

\* re.search('^\./measurement/s1.*tiff$', x)
IsMeasurementPath(x) ==
    x.lead = "./" /\ x.dir = "measurement" /\ x.prefix = "s1a" /\ x.ext = "tiff"

\* x[2:]
DropLead(x) == [dir |-> x.dir, prefix |-> x.prefix, iw |-> x.iw, pol |-> x.pol, ext |-> x.ext]

\* [x[2:] for x in file_paths if re.search(...)]; matching is the set of
\* hrefs the pattern matches.
FilterPaths(s, matching) ==
    LET F[k \in 0..Len(s)] ==
            IF k = 0 THEN << >>
            ELSE IF s[k] \in matching THEN Append(F[k - 1], DropLead(s[k])) ELSE F[k - 1]
    IN  F[Len(s)]

\* Text order of two paths of one directory, prefix and extension: the swath
\* digit decides, then the polarization, 'vh' before 'vv'.
PathBefore(a, b) == a.iw < b.iw \/ (a.iw = b.iw /\ a.pol = "vh" /\ b.pol = "vv")

\* The list left as the manifest gave it.
unsorted(l) == l

\* list.sort()
RECURSIVE sorted(_)
sorted(l) ==
    IF Len(l) = 0
    THEN << >>
    ELSE LET i == CHOOSE i \in 1..Len(l) :
                      \A k \in 1..Len(l) : k = i \/ ~PathBefore(l[k], l[i])
         IN  <<l[i]>> \o sorted(Remove(l, i))

lower(polarization) ==
    CASE polarization = "VV" -> "vv"
      [] polarization = "VH" -> "vh"
      [] OTHER -> polarization

\* A pattern that names the sub-swath only.
MatchesSwathOnly(x, polarization, swath_index) == x.prefix = "s1a" /\ x.iw = swath_index + 1

\* re.search(f'^.*/s1.-iw{swath_index + 1}-slc-{polarization.lower()}.*$', x)
Matches(x, polarization, swath_index) ==
    x.prefix = "s1a" /\ x.iw = swath_index + 1 /\ x.pol = lower(polarization)

\* [x for x in l if re.search(pattern, x)][0]
FirstMatch(l, polarization, swath_index) ==
    LET found == { k \in DOMAIN l : Matches(l[k], polarization, swath_index) }
    IN  IF found = {} THEN [ok |-> FALSE, error |-> "IndexError"]
        ELSE [ok |-> TRUE, error |-> "",
              path |-> l[CHOOSE k \in found : \A j \in found : k <= j]]

RangeOf(l) == { l[k] : k \in DOMAIN l }

InitPaths ==
    /\ FirstIdle("paths")
    /\ dl = NoDl /\ stack = NoStack /\ dec = NoDec /\ meta = NoMeta /\ LaterIdle("paths")
    /\ \E file_paths \in FileLists :
          paths = [pc |-> "manifest", file_paths |-> file_paths,
                   annotation_paths |-> << >>, measurement_paths |-> << >>,
                   polarizations |-> {}, polarization |-> "", swath_index |-> 0,
                   annotation_path |-> << >>, measurement_path |-> << >>,
                   error |-> "", raised_at |-> ""]

PathsUnchanged ==
    UNCHANGED <<annotations, pc, swath_pos, burst_index, bursts, error, fetch, idb, geo,
                dl, stack, dec, meta, pool, poly, valid, cat>>

\* edl_download_metadata: annotation_paths, filtered and sorted; the
\* annotations dict is built in that order.
AnnotationPaths ==
    /\ paths.pc = "manifest"
    /\ paths' = [paths EXCEPT
           !.pc = "annotations",
           !.annotation_paths = sorted(FilterPaths(paths.file_paths,
                                           { x \in FileLocations : IsAnnotationPath(x) }))]
    /\ PathsUnchanged

\* SLCMetadata.__init__: measurement_paths, filtered and sorted, and the
\* polarizations of the annotation keys.
MeasurementPaths ==
    /\ paths.pc = "annotations"
    /\ paths' = [paths EXCEPT
           !.pc = "slc",
           !.measurement_paths = sorted(FilterPaths(paths.file_paths,
                                            { x \in FileLocations : IsMeasurementPath(x) })),
           !.polarizations = { paths.annotation_paths[k].pol :
                                  k \in DOMAIN paths.annotation_paths }]
    /\ PathsUnchanged

\* SwathMetadata(slc, polarization, swath_index) up to measurement_path: the
\* polarization is looked up first, then the two paths, each lookup raising
\* IndexError when it finds nothing.
SwathPaths ==
    /\ paths.pc = "slc"
    /\ \E polarization \in {"vv", "vh", "VV", "hh"}, swath_index \in {0, 1} :
          LET a == FirstMatch(paths.annotation_paths, polarization, swath_index)
              b == FirstMatch(paths.measurement_paths, polarization, swath_index)
              called == [paths EXCEPT !.polarization = polarization,
                                      !.swath_index = swath_index]
          IN  IF lower(polarization) \notin paths.polarizations
              THEN paths' = [called EXCEPT !.pc = "raised", !.error = "IndexError",
                                           !.raised_at = "polarization"]
              ELSE IF ~a.ok
              THEN paths' = [called EXCEPT !.pc = "raised", !.error = a.error,
                                           !.raised_at = "annotation_path"]
              ELSE IF ~b.ok
              THEN paths' = [called EXCEPT !.pc = "raised", !.error = b.error,
                                           !.raised_at = "measurement_path",
                                           !.annotation_path = <<a.path>>]
              ELSE paths' = [called EXCEPT !.pc = "swath",
                                           !.annotation_path = <<a.path>>,
                                           !.measurement_path = <<b.path>>]
    /\ PathsUnchanged

NextPaths == AnnotationPaths \/ MeasurementPaths \/ SwathPaths

SpecPaths == InitPaths /\ [][NextPaths]_vars

Ascending(l) == \A a, b \in DOMAIN l : a < b => PathBefore(l[a], l[b])

\* C22: annotation_paths and measurement_paths hold exactly the manifest's
\* file locations that follow the annotation resp. measurement naming, each
\* once and without its leading './', in ascending text order, in whatever
\* order the manifest lists its files.
C22_PathListsFilteredAndSorted ==
    /\ paths.pc \in {"annotations", "slc", "swath", "raised"} =>
          /\ RangeOf(paths.annotation_paths) =
                 { DropLead(x) : x \in { y \in RangeOf(paths.file_paths) : IsAnnotationPath(y) } }
          /\ Ascending(paths.annotation_paths)
          /\ \A k \in DOMAIN paths.annotation_paths :
                 "lead" \notin DOMAIN paths.annotation_paths[k]
    /\ paths.pc \in {"slc", "swath", "raised"} =>
          /\ RangeOf(paths.measurement_paths) =
                 { DropLead(x) : x \in { y \in RangeOf(paths.file_paths) : IsMeasurementPath(y) } }
          /\ Ascending(paths.measurement_paths)
          /\ \A k \in DOMAIN paths.measurement_paths :
                 "lead" \notin DOMAIN paths.measurement_paths[k]

\* Both lists are built from a manifest that names two annotation files in
\* descending order, with a calibration file and a measurement file among
\* them.
C22_Witness ==
    /\ paths.pc = "slc"
    /\ Len(paths.annotation_paths) = 2
    /\ Len(paths.measurement_paths) = 1
    /\ Len(paths.file_paths) = 4
    /\ \E a, b \in DOMAIN paths.file_paths :
          /\ a < b
          /\ IsAnnotationPath(paths.file_paths[a]) /\ IsAnnotationPath(paths.file_paths[b])
          /\ PathBefore(paths.file_paths[b], paths.file_paths[a])

\* C24: when SwathMetadata selects its paths, the annotation path and the
\* measurement path both name sub-swath iw{swath_index + 1} and the
\* polarization asked for, and they are selected whenever the product holds
\* both files of that swath and polarization; a polarization the product does
\* not have is refused with IndexError before any path is selected.
C24_PathsPairedBySwathAndPolarization ==
    /\ paths.pc = "swath" =>
          /\ paths.annotation_path[1].dir = "annotation"
          /\ paths.measurement_path[1].dir = "measurement"
          /\ paths.annotation_path[1].iw = paths.swath_index + 1
          /\ paths.measurement_path[1].iw = paths.swath_index + 1
          /\ paths.annotation_path[1].pol = lower(paths.polarization)
          /\ paths.measurement_path[1].pol = lower(paths.polarization)
    /\ paths.pc \in {"swath", "raised"} =>
          /\ lower(paths.polarization) \notin paths.polarizations <=>
                (/\ paths.pc = "raised" /\ paths.error = "IndexError"
                 /\ paths.raised_at = "polarization")
          /\ paths.raised_at = "polarization" =>
                paths.annotation_path = << >> /\ paths.measurement_path = << >>
          /\ (\E x, y \in RangeOf(paths.file_paths) :
                 /\ IsAnnotationPath(x) /\ IsMeasurementPath(y)
                 /\ x.iw = paths.swath_index + 1 /\ y.iw = paths.swath_index + 1
                 /\ x.pol = lower(paths.polarization) /\ y.pol = lower(paths.polarization))
                => paths.pc = "swath"

\* The vv paths of the second sub-swath are selected in a product that also
\* holds files of the first sub-swath.
C24_Witness ==
    /\ paths.pc = "swath"
    /\ paths.swath_index = 1
    /\ Len(paths.annotation_paths) = 2
    /\ Len(paths.measurement_paths) = 2
    /\ paths.annotation_path[1].iw = 2



\* The records of `bursts` that belong to swath s, in list order.
SwathBursts(s) == SelectSeq(bursts, LAMBDA b : b.swath = s)

\* C23: once get_burst_metadata has ended, every swath has exactly n_bursts
\* Burst records, one per burst_index 0 .. n_bursts - 1, in index order.
C23_OneBurstPerDeclaredIndex ==
    pc \in {"returned", "raised"} =>
        \A s \in SwathIds :
            /\ Len(SwathBursts(s)) = n_bursts(s)
            /\ \A k \in 1..Len(SwathBursts(s)) : SwathBursts(s)[k].burst_index = k - 1

\* C26: BurstMetadata construction never raises, whatever the number of
\* bursts a swath declares, and every record built carries byte_offset and
\* byte_length.
C26_EveryBurstAddressable ==
    /\ pc # "raised"
    /\ error = ""
    /\ \A k \in 1..Len(bursts) : {"byte_offset", "byte_length"} \subseteq DOMAIN bursts[k]


\* ------------------------------------- nearest polynomial (get_nearest_polynomial)
\* Times are whole microseconds, the resolution of datetime and of the
\* annotation's azimuthTime texts.
MaxTime == 4       \* azimuthTime values and sensing_start: 0..MaxTime
MaxRefs == 3       \* polynomials of one list: 1..MaxRefs
MaxLines == 3      \* linesPerBurst: 1..MaxLines
MaxInterval == 2   \* azimuth_time_interval: 1..MaxInterval

Abs(x) == IF x < 0 THEN -x ELSE x

\* timedelta(seconds=0.5 * n): the half is rounded to a whole microsecond,
\* ties to the even one.
HalfRounded(n) ==
    IF n % 2 = 0 THEN n \div 2
    ELSE IF ((n - 1) \div 2) % 2 = 0 THEN (n - 1) \div 2 ELSE (n + 1) \div 2

\* A polynomial list of the annotation as get_polynomials reads it: the
\* k-th element carries its azimuthTime text and its own polynomial, here k.
\* The times are those of distinct elements, in document order.
PolynomialLists ==
    { l \in UNION { [1..n -> 0..MaxTime] : n \in 1..MaxRefs } :
        \A a, b \in DOMAIN l : a # b => l[a] # l[b] }

\* polynomials = {k: v for k, v in polynomial_list}: keyed by the text.
get_polynomials(l) ==
    [key \in { [type |-> "str", t |-> l[k]] : k \in DOMAIN l } |->
        CHOOSE k \in DOMAIN l : l[k] = key.t]

\* [convert_dt(x) for x in time_poly_pair.keys()], in insertion order.
KeyTimes(l) == [k \in DOMAIN l |-> convert_dt([type |-> "str", t |-> l[k]])]

\* The datetimes left in the order of the dict's keys.
insertion_order(l) == l

\* sorted(...) of a list of datetimes
RECURSIVE sorted_datetimes(_)
sorted_datetimes(l) ==
    IF Len(l) = 0
    THEN << >>
    ELSE LET i == CHOOSE i \in 1..Len(l) : \A k \in 1..Len(l) : l[i].t <= l[k].t
         IN  <<l[i]>> \o sorted_datetimes(Remove(l, i))

\* BurstMetadata.get_abs_dt
get_abs_dt(t_mid, t_new) == Abs(t_mid.t - t_new.t)

InitPoly ==
    /\ FirstIdle("poly")
    /\ dl = NoDl /\ stack = NoStack /\ dec = NoDec /\ meta = NoMeta /\ LaterIdle("poly")
    /\ \E l \in PolynomialLists, sensing_start \in 0..MaxTime,
          lines \in 1..MaxLines, azimuth_time_interval \in 1..MaxInterval :
          poly = [pc |-> "called",
                  refs |-> l,
                  time_poly_pair |-> get_polynomials(l),
                  sensing_start |-> [type |-> "str", t |-> sensing_start],
                  lines |-> lines,
                  azimuth_time_interval |-> azimuth_time_interval,
                  t_mid |-> << >>, t_all |-> << >>, next |-> 0,
                  dt |-> << >>, nearest_poly |-> << >>]

PolyUnchanged ==
    UNCHANGED <<annotations, pc, swath_pos, burst_index, bursts, error, fetch, idb, geo,
                dl, stack, dec, meta, pool, paths, valid, cat>>

\* d_seconds, t_mid, t_all, and dt and nearest_poly of t_all[0].
NearestStart ==
    /\ poly.pc = "called"
    /\ LET d_seconds == HalfRounded((poly.lines - 1) * poly.azimuth_time_interval)
           start == convert_dt(poly.sensing_start)
           t_mid == [type |-> "datetime", t |-> start.t + d_seconds]
           t_all == sorted_datetimes(KeyTimes(poly.refs))
           t_start == t_all[1]
       IN  poly' = [poly EXCEPT
               !.pc = "loop",
               !.t_mid = <<t_mid>>,
               !.t_all = t_all,
               !.next = 2,
               !.dt = <<get_abs_dt(t_mid, t_start)>>,
               !.nearest_poly = <<poly.time_poly_pair[convert_dt(t_start)]>>]
    /\ PolyUnchanged

\* One pass of `for t_iter in t_all[1:]`: break when the distance grows,
\* else take t_iter's distance and polynomial.
NearestIter ==
    /\ poly.pc = "loop"
    /\ poly.next <= Len(poly.t_all)
    /\ LET t_iter == poly.t_all[poly.next]
           temp_dt == get_abs_dt(poly.t_mid[1], t_iter)
       IN  IF temp_dt > poly.dt[1]
           THEN poly' = [poly EXCEPT !.pc = "returned"]
           ELSE poly' = [poly EXCEPT
                    !.next = @ + 1,
                    !.dt = <<temp_dt>>,
                    !.nearest_poly = <<poly.time_poly_pair[convert_dt(t_iter)]>>]
    /\ PolyUnchanged

\* The loop is exhausted: return nearest_poly.
NearestReturn ==
    /\ poly.pc = "loop"
    /\ poly.next > Len(poly.t_all)
    /\ poly' = [poly EXCEPT !.pc = "returned"]
    /\ PolyUnchanged

NextPoly == NearestStart \/ NearestIter \/ NearestReturn

SpecPoly == InitPoly /\ [][NextPoly]_vars

\* The burst mid time of the call: sensing_start plus half of
\* (lines - 1) * azimuth_time_interval.
BurstMidTime ==
    poly.sensing_start.t + HalfRounded((poly.lines - 1) * poly.azimuth_time_interval)

\* The least distance of a reference time of the list to the burst mid time.
LeastDistance ==
    CHOOSE d \in { Abs(BurstMidTime - poly.refs[k]) : k \in DOMAIN poly.refs } :
        \A k \in DOMAIN poly.refs : d <= Abs(BurstMidTime - poly.refs[k])

\* C25: the polynomial returned is the one of a reference time at the least
\* distance from the burst mid time, in whatever order the annotation lists
\* the polynomials and although the scan stops at the first growing distance.
C25_NearestPolynomial ==
    poly.pc = "returned" =>
        /\ poly.dt[1] = LeastDistance
        /\ \E k \in DOMAIN poly.refs :
              /\ Abs(BurstMidTime - poly.refs[k]) = LeastDistance
              /\ poly.nearest_poly[1] = k

\* The scan moved on once and then stopped at a growing distance, on a list the
\* annotation gives out of time order, with the mid time off sensing_start.
C25_Witness ==
    /\ poly.pc = "returned"
    /\ poly.next <= Len(poly.t_all)
    /\ poly.next > 2
    /\ \E a, b \in DOMAIN poly.refs : a < b /\ poly.refs[a] > poly.refs[b]
    /\ BurstMidTime > poly.sensing_start.t


\* --------------------------------- valid lines and samples (get_lines_and_samples)
\* One line of a burst annotation: firstValidSample and lastValidSample are
\* both -1 on a line without valid samples, else 0 <= first <= last.
MaxValidSample == 2   \* firstValidSample and lastValidSample: -1..MaxValidSample

LineEntries ==
    { <<-1, -1>> } \cup
    { p \in (0..MaxValidSample) \X (0..MaxValidSample) : p[1] <= p[2] }

\* A burst's lines: 1..MaxLines entries.
LineLists == UNION { [1..n -> LineEntries] : n \in 1..MaxLines }

\* [x >= 0 for x in first_valid_samples].index(True), 0-based; no True raises
\* ValueError.
IndexOfTrue(flags) ==
    IF \A k \in DOMAIN flags : ~flags[k]
    THEN [ok |-> FALSE, error |-> "ValueError"]
    ELSE [ok |-> TRUE, error |-> "",
          index |-> (CHOOSE k \in DOMAIN flags :
                        flags[k] /\ \A j \in DOMAIN flags : flags[j] => k <= j) - 1]

\* [x >= 0 for x in first_valid_samples].count(True)
CountTrue(flags) == Cardinality({ k \in DOMAIN flags : flags[k] })

\* BurstMetadata.get_lines_and_samples on the two lists of the annotation.
get_lines_and_samples(first_valid_samples, last_valid_samples) ==
    LET flags == [k \in DOMAIN first_valid_samples |-> first_valid_samples[k] >= 0]
        found == IndexOfTrue(flags)
    IN  IF ~found.ok
        THEN found
        ELSE LET first_valid_line == found.index
                 n_valid_lines == CountTrue(flags)
                 last_valid_line == first_valid_line + n_valid_lines - 1
             IN  [ok |-> TRUE, error |-> "",
                  first_valid_sample |-> Max(first_valid_samples[first_valid_line + 1],
                                             first_valid_samples[last_valid_line + 1]),
                  last_valid_sample |-> Min(last_valid_samples[first_valid_line + 1],
                                            last_valid_samples[last_valid_line + 1]),
                  first_valid_line |-> first_valid_line,
                  last_valid_line |-> last_valid_line]

InitValid ==
    /\ FirstIdle("valid")
    /\ dl = NoDl /\ stack = NoStack /\ dec = NoDec /\ meta = NoMeta /\ LaterIdle("valid")
    /\ \E l \in LineLists :
          valid = [pc |-> "called",
                   first_valid_samples |-> [k \in DOMAIN l |-> l[k][1]],
                   last_valid_samples |-> [k \in DOMAIN l |-> l[k][2]],
                   result |-> << >>, error |-> ""]

GetLinesAndSamples ==
    /\ valid.pc = "called"
    /\ LET r == get_lines_and_samples(valid.first_valid_samples, valid.last_valid_samples)
       IN  IF r.ok
           THEN valid' = [valid EXCEPT !.pc = "returned", !.result = <<r>>]
           ELSE valid' = [valid EXCEPT !.pc = "raised", !.error = r.error]
    /\ UNCHANGED <<annotations, pc, swath_pos, burst_index, bursts, error, fetch, idb, geo,
                   dl, stack, dec, meta, pool, paths, poly, cat>>

NextValid == GetLinesAndSamples

SpecValid == InitValid /\ [][NextValid]_vars

\* The 0-based indexes of the lines whose firstValidSample is >= 0.
ValidLines == { k - 1 : k \in { j \in DOMAIN valid.first_valid_samples :
                                   valid.first_valid_samples[j] >= 0 } }

SetMin(S) == CHOOSE x \in S : \A y \in S : x <= y

SetMax(S) == CHOOSE x \in S : \A y \in S : x >= y

\* C27: for a list with a valid line, first_valid_line and last_valid_line
\* are the indexes of the first and of the last line with firstValidSample
\* >= 0, first_valid_sample is the larger firstValidSample and
\* last_valid_sample the smaller lastValidSample of those two lines, and
\* first_valid_line <= last_valid_line < number of lines.
C27_FirstAndLastValidLine ==
    (valid.pc # "idle" /\ valid.pc # "called" /\ ValidLines # {}) =>
        /\ valid.pc = "returned"
        /\ LET r == valid.result[1]
               first == SetMin(ValidLines)
               last == SetMax(ValidLines)
           IN  /\ r.first_valid_line = first
               /\ r.last_valid_line = last
               /\ r.first_valid_sample = Max(valid.first_valid_samples[first + 1],
                                             valid.first_valid_samples[last + 1])
               /\ r.last_valid_sample = Min(valid.last_valid_samples[first + 1],
                                            valid.last_valid_samples[last + 1])
               /\ r.first_valid_line <= r.last_valid_line
               /\ r.last_valid_line < Len(valid.first_valid_samples)

\* -------------------------------------------------- temporal extent (SpecId)
\* generate_umm, the TemporalExtent: each time text with '+00:00' appended.
RangeDateTime(burst) ==
    [BeginningDateTime |-> <<burst.sensing_start, "+00:00">>,
     EndingDateTime |-> <<burst.sensing_stop, "+00:00">>]

\* Order of the sensing time texts of the profiles, which is the order of
\* their instants.
DateBefore(a, b) == a = "2021-01-07" /\ b = "2021-02-12"

\* C28: every burst's sensing_stop is strictly later than its sensing_start,
\* and so the EndingDateTime of its UMM record is after the BeginningDateTime.
C28_SensingStopAfterStart ==
    \A k \in 1..Len(idb) :
        /\ DateBefore(idb[k].self.sensing_start, idb[k].self.sensing_stop)
        /\ DateBefore(RangeDateTime(idb[k].self).BeginningDateTime[1],
                      RangeDateTime(idb[k].self).EndingDateTime[1])


\* --------------------------------- STAC catalog (generate_burst_stac_catalog)
\* pystac, as far as the function uses it: a collection holds its items as a
\* list of links; add_item appends a link without looking for the id,
\* get_item returns the first linked item of an id, remove_item drops every
\* link of an id.  Items are objects: a link holds a reference, here the
\* item's position in burst_items.
MaxStacks == 2      \* stack_id values of the bursts: 1..MaxStacks
MaxDates == 2       \* sensing_start values of the bursts: 1..MaxDates
MaxCatBursts == 3   \* bursts of one burst_list: 1..MaxCatBursts

\* The bursts a list is made of: stack, sensing time and polarization.
CatalogBursts ==
    [stack_id : 1..MaxStacks, sensing_start : 1..MaxDates, polarization : {"vv", "vh"}]

BurstLists ==
    { l \in UNION { [1..n -> CatalogBursts] : n \in 1..MaxCatBursts } :
        \A a, b \in DOMAIN l : a # b => l[a] # l[b] }

\* BurstMetadata.to_stac_item: the id is absolute_burst_id, which has the
\* sensing time, the relative burst id and the swath in it (the two make
\* stack_id) and not the polarization; one asset, keyed by the polarization
\* in upper case, here valued by the burst it comes from.
to_stac_item(self, k) ==
    [id |-> <<"S1_SLC", self.sensing_start, self.stack_id>>,
     properties |-> [stack_id |-> self.stack_id,
                     polarizations |-> <<upper(self.polarization)>>],
     assets |-> [key \in {upper(self.polarization)} |-> k]]

\* collection.get_item(id): the first linked item of that id, or None.
get_item(links, items, id) ==
    LET found == { k \in DOMAIN links : items[links[k]].id = id }
    IN  IF found = {} THEN << >>
        ELSE <<links[CHOOSE k \in found : \A j \in found : k <= j]>>

\* collection.remove_item(id): the links of other ids.
remove_item(links, items, id) == SelectSeq(links, LAMBDA o : items[o].id # id)

\* item.add_asset(key, asset)
add_asset(assets, key, asset) ==
    [k \in DOMAIN assets \cup {key} |-> IF k = key THEN asset ELSE assets[k]]

\* [x for x in burst_items if x.properties['stack_id'] == stack_id], as the
\* positions of the items in burst_items.
StackItems(items, stack_id) ==
    LET F[k \in 0..Len(items)] ==
            IF k = 0 THEN << >>
            ELSE IF items[k].properties.stack_id = stack_id
                 THEN Append(F[k - 1], k) ELSE F[k - 1]
    IN  F[Len(items)]

InitCatalog ==
    /\ FirstIdle("cat")
    /\ dl = NoDl /\ stack = NoStack /\ dec = NoDec /\ meta = NoMeta /\ LaterIdle("cat")
    /\ \E burst_list \in BurstLists :
          cat = [pc |-> "called", burst_list |-> burst_list,
                 burst_items |-> << >>, stack_ids |-> {},
                 stack_id |-> 0, stack_items |-> << >>, next |-> 0,
                 collection |-> << >>, children |-> << >>]

CatalogUnchanged ==
    UNCHANGED <<annotations, pc, swath_pos, burst_index, bursts, error, fetch, idb, geo,
                dl, stack, dec, meta, pool, paths, poly, valid>>

\* burst_items = [x.to_stac_item() for x in burst_list]; stack_ids = set(...)
BurstItems ==
    /\ cat.pc = "called"
    /\ LET burst_items == [k \in DOMAIN cat.burst_list |-> to_stac_item(cat.burst_list[k], k)]
       IN  cat' = [cat EXCEPT
               !.pc = "stacks",
               !.burst_items = burst_items,
               !.stack_ids = { burst_items[k].properties.stack_id : k \in DOMAIN burst_items }]
    /\ CatalogUnchanged

\* for stack_id in stack_ids: a set is iterated in an order of its own.
\* stack_items and the empty collection of the stack.
StackCollection ==
    /\ cat.pc = "stacks"
    /\ \E stack_id \in cat.stack_ids :
          cat' = [cat EXCEPT
              !.pc = "items",
              !.stack_ids = @ \ {stack_id},
              !.stack_id = stack_id,
              !.stack_items = StackItems(cat.burst_items, stack_id),
              !.next = 1,
              !.collection = << >>]
    /\ CatalogUnchanged

\* One pass of `for item in stack_items`.
StackItem ==
    /\ cat.pc = "items"
    /\ cat.next <= Len(cat.stack_items)
    /\ LET item == cat.stack_items[cat.next]
           item_from_catalog == get_item(cat.collection, cat.burst_items,
                                         cat.burst_items[item].id)
       IN  IF item_from_catalog = << >>
           THEN cat' = [cat EXCEPT !.next = @ + 1,
                                   !.collection = @ \o cat.stack_items]
           ELSE LET o == item_from_catalog[1]
                    item_polarization == cat.burst_items[item].properties.polarizations[1]
                IN  cat' = [cat EXCEPT
                        !.next = @ + 1,
                        !.collection =
                            Append(remove_item(@, cat.burst_items, cat.burst_items[o].id), o),
                        !.burst_items[o].assets =
                            add_asset(@, item_polarization,
                                      cat.burst_items[item].assets[item_polarization]),
                        !.burst_items[o].properties.polarizations =
                            Append(@, item_polarization)]
    /\ CatalogUnchanged

\* catalog.add_child(collection)
AddChild ==
    /\ cat.pc = "items"
    /\ cat.next > Len(cat.stack_items)
    /\ cat' = [cat EXCEPT
           !.pc = "stacks",
           !.children = Append(@, [id |-> cat.stack_id, links |-> cat.collection])]
    /\ CatalogUnchanged

\* return catalog
CatalogReturn ==
    /\ cat.pc = "stacks"
    /\ cat.stack_ids = {}
    /\ cat' = [cat EXCEPT !.pc = "returned"]
    /\ CatalogUnchanged

NextCatalog == BurstItems \/ StackCollection \/ StackItem \/ AddChild \/ CatalogReturn

SpecCatalog == InitCatalog /\ [][NextCatalog]_vars

\* How often x occurs in the list s.
Occurrences(s, x) == Cardinality({ k \in DOMAIN s : s[k] = x })

\* The item ids of the bursts of a stack.
ItemIdsOf(stack_id) ==
    { to_stac_item(cat.burst_list[k], k).id :
        k \in { j \in DOMAIN cat.burst_list : cat.burst_list[j].stack_id = stack_id } }

\* C29 (first part): the returned catalog has one child collection per
\* stack_id of the bursts, and each collection holds one item per item id of
\* the bursts of its stack.
CatalogItemsPerStack ==
    /\ \A s \in { cat.burst_list[k].stack_id : k \in DOMAIN cat.burst_list } :
          Cardinality({ c \in DOMAIN cat.children : cat.children[c].id = s }) = 1
    /\ \A c \in DOMAIN cat.children :
          LET links == cat.children[c].links
              ids == [k \in DOMAIN links |-> cat.burst_items[links[k]].id]
          IN  /\ ItemIdsOf(cat.children[c].id) # {}
              /\ { ids[k] : k \in DOMAIN ids } = ItemIdsOf(cat.children[c].id)
              /\ \A k \in DOMAIN ids : Occurrences(ids, ids[k]) = 1

\* C29 (second part): every item of a collection lists in 'sar:polarizations'
\* each polarization it has an asset for once, and no other.
CatalogPolarizationsOnce ==
    \A c \in DOMAIN cat.children :
        \A k \in DOMAIN cat.children[c].links :
            LET item == cat.burst_items[cat.children[c].links[k]]
            IN  /\ \A key \in DOMAIN item.assets :
                      Occurrences(item.properties.polarizations, key) = 1
                /\ \A j \in DOMAIN item.properties.polarizations :
                      item.properties.polarizations[j] \in DOMAIN item.assets

\* C29: after generate_burst_stac_catalog there is one child collection per
\* distinct stack_id, each collection holds exactly one item per distinct
\* item id among the bursts of its stack, and each item's
\* 'sar:polarizations' names each polarization it has an asset for exactly
\* once.
C29_OneItemPerIdPolarizationsOnce ==
    cat.pc = "returned" => CatalogItemsPerStack /\ CatalogPolarizationsOnce
====
